---- MODULE Spec2Model ----
(***************************************************************************)
(* Verification model of the Volatility address-space resolver             *)
(* (volatility/utils.py, load_as) and of the Windows overlay               *)
(* (volatility/plugins/overlays/windows/windows.py): the traversals        *)
(* _LIST_ENTRY.list_of_type, _MMVAD_SHORT.traverse and                     *)
(* _HANDLE_TABLE._make_handle_array, and the functions                     *)
(* _EX_FAST_REF.dereference_as, _OBJECT_HEADER.find_optional_headers,      *)
(* VolatilityIA32ValidAS.generate_suggestions, _MMVAD.__new__ and the      *)
(* profile modifications.                                                  *)
(*                                                                         *)
(* Each of them has its own specification (SpecAS, SpecList, SpecVad,      *)
(* SpecHandle, SpecFastRef, SpecOptional, SpecValid, SpecSchema,           *)
(* SpecMmvad); the variables of the others stay at their initial values.   *)
(***************************************************************************)
EXTENDS Integers, Sequences, FiniteSets, TLC

VARIABLES
    \* ---- load_as (utils.py) ----
    as_pc,      \* position in load_as: idle, round, try, roundend, returned, raised, fault
    run,        \* number of calls of load_as made so far (0..MaxRuns)
    kwargs,     \* the configuration bag passed to load_as
    layers,     \* heap of constructed (accepted) layer objects: [cls, base, kwargs]
    base_as,    \* the local base_as: 0 is None, else an index into layers
    found,      \* the local found
    idx,        \* position of the for loop in registry.AS_CLASSES.classes
    round,      \* number of the current voting round in this call
    reasons,    \* error.reasons of the AddrSpaceError built at line 10
    raisedErr,  \* the reason list of the exception surfaced to the caller, or NoError
    result,     \* the value returned to the caller (0 when nothing was returned)
    attempts,   \* history: every construction attempt of this call, in order
    verdict,    \* the image: what each constructor answered for (cls, base, kwargs)
    first,      \* outcome of the first call, kept for comparison with the second
    \* ---- _LIST_ENTRY.list_of_type (windows.py) ----
    l_pc,       \* position in the generator: start, loop, done
    l_self,     \* obj_offset of the list header the method is called on
    l_forward,  \* the forward argument
    l_off,      \* profile.get_obj_offset(type, member)
    Flink,      \* the image: Flink pointer stored at each link address
    Blink,      \* the image: Blink pointer stored at each link address
    lst,        \* the local lst (obj_offset of the current link; 0 is NoneObject)
    seen,       \* the local seen
    l_out,      \* the obj_offset of every item yielded so far, in order
    admitted,   \* history: the targets that passed the test of line 223
    \* ---- _EPROCESS.get_vads / _MMVAD_SHORT.traverse (windows.py) ----
    v_pc,       \* position in get_vads: start, walk, done
    VadRoot,    \* the process's VadRoot pointer
    procspace,  \* what get_process_address_space() gave: "Process" or "None"
    vmem,       \* the image as read so far: tag and child pointers of each node
    v_stack,    \* the nested traverse generators: [node, stage], innermost last
    visited,    \* the visited set shared by the nested generators
    v_out,      \* the obj_offset of every node get_vads yielded so far, in order
    \* ---- _HANDLE_TABLE.handles / _make_handle_array (windows.py) ----
    h_pc,       \* position in handles(): start, walk, done
    arch,       \* the profile: "x86" or "x64" (sizes of address and table entry)
    TableCode,  \* the TableCode field: page address with the level in its low bits
    h_stack,    \* the nested _make_handle_array generators: [level, depth, pos]
    h_last,     \* the last item handles() yielded, with where the walk found it
    h_break,    \* history: where the last break of line 434 left a leaf page
    \* ---- _EX_FAST_REF.dereference_as (windows.py) ----
    f_pc,       \* position: call, done
    f_word,     \* self.Object.v(): the packed word of the fast reference
    f_parent,   \* the parent argument
    f_out,      \* the object dereference_as returned
    \* ---- _OBJECT_HEADER.find_optional_headers (windows.py) ----
    o_pc,       \* position: loop, done
    o_offset,   \* self.obj_offset of the _OBJECT_HEADER
    o_field,    \* the image: the value of each <name>Offset member
    o_types,    \* the profile: the optional header types it has
    o_i,        \* position of the for loop in optional_headers
    o_attrs,    \* the attribute newattr created for each name, or Unset
    \* ---- VolatilityIA32ValidAS.generate_suggestions (windows.py) ----
    va_pc,      \* position: selfmap, shared, final, done
    va_pae,     \* self.obj_vm.pae
    va_dtb,     \* self.obj_vm.dtb
    va_pdpte,   \* self.obj_vm.get_pdpte(0)
    va_vtop,    \* the candidate space: what vtop gives for each address, 0 is None
    va_assert,  \* whether the self-map derivation raises ASAssertionError
    va_out,     \* the verdicts yielded so far, in order
    \* ---- WindowsVTypes / WindowsOverlay / WindowsObjectClasses (windows.py) ----
    s_pc,       \* position: registered, apply, done
    s_registered, \* the modifications in the order they were registered
    s_order,    \* the order of application the before sets give
    s_k,        \* position in s_order of the next modification to apply
    s_overlay,  \* windows_overlay: the patch of each field of each structure
    s_tables,   \* the structures the vtypes tables of WindowsVTypes define
    s_vtypes,   \* profile: offset and type of each field of each structure
    s_classes,  \* profile.object_classes: the structures bound to a class
    s_again,    \* whether windows_overlay was merged a second time
    s_once,     \* the schema as it was before the second merge
    \* ---- _MMVAD.__new__ (windows.py) ----
    n_pc,       \* position: call, done
    n_offset,   \* the offset argument
    n_tag,      \* the image: the 4 bytes in front of offset (result.Tag)
    n_vm,       \* the vm argument: "Process", or "None" when there is none
    n_out,      \* the object __new__ returned
    \* ---- _UNICODE_STRING (windows.py) ----
    u_pc,       \* position: call, done
    u_Length,   \* the image: self.Length.v()
    u_Buffer,   \* the image: whether the Buffer pointer tests true
    u_data,     \* the image: whether the String the Buffer leads to tests true
    u_op,       \* the method called: v, dereference or __nonzero__
    u_out,      \* what the method returned, and whether it read the buffer
    \* ---- _EPROCESS.get_process_address_space / get_vads (windows.py) ----
    p_pc,       \* position: call, vads, walk, done, raised
    p_heap,     \* the address space layers that exist: [cls, base, config, dtb, name]
    p_vm,       \* self.obj_vm: index in p_heap of the kernel layer
    p_dtb,      \* self.Pcb.DirectoryTableBase.v()
    p_pid,      \* self.UniqueProcessId
    p_out,      \* what get_process_address_space returned: a layer index, 0 for NoneObject
    p_before,   \* history: p_heap as it was before the call
    \* ---- _CM_KEY_BODY.full_key_name (windows.py) ----
    k_pc,       \* position: loop, done
    k_parent,   \* image: ParentKcb of each key control block, 0 when the pointer is not valid
    k_named,    \* image: whether NameBlock.Name of each block can be read
    k_kcb,      \* kcb: the block the loop is at, 0 when not valid
    k_output,   \* output: the names appended so far
    k_result    \* the joined name returned, NoResult until then

as_vars == <<as_pc, run, kwargs, layers, base_as, found, idx, round, reasons,
             raisedErr, result, attempts, verdict, first>>

list_vars == <<l_pc, l_self, l_forward, l_off, Flink, Blink, lst, seen, l_out,
               admitted>>

vad_vars == <<v_pc, VadRoot, procspace, vmem, v_stack, visited, v_out>>

handle_vars == <<h_pc, arch, TableCode, h_stack, h_last, h_break>>

fastref_vars == <<f_pc, f_word, f_parent, f_out>>

optional_vars == <<o_pc, o_offset, o_field, o_types, o_i, o_attrs>>

valid_vars == <<va_pc, va_pae, va_dtb, va_pdpte, va_vtop, va_assert, va_out>>

schema_vars == <<s_pc, s_registered, s_order, s_k, s_overlay, s_tables, s_vtypes, s_classes, s_again, s_once>>

mmvad_vars == <<n_pc, n_offset, n_tag, n_vm, n_out>>

unicode_vars == <<u_pc, u_Length, u_Buffer, u_data, u_op, u_out>>

proc_vars == <<p_pc, p_heap, p_vm, p_dtb, p_pid, p_out, p_before>>

key_vars == <<k_pc, k_parent, k_named, k_kcb, k_output, k_result>>

vars ==
    <<as_vars, list_vars, vad_vars, handle_vars, fastref_vars,
      optional_vars, valid_vars, schema_vars, mmvad_vars, unicode_vars,
      proc_vars, key_vars>>

\* ------------------------------------------------------------------------
\* Bounds of the model
\* ------------------------------------------------------------------------
NumClasses == 2     \* entries of registry.AS_CLASSES.classes
MaxLayers == 2      \* layers an image lets the resolver stack
MaxRuns == 2        \* calls of load_as on the same image
NumEntries == 3     \* link addresses of a list image besides the header's
NumVads == 3        \* node addresses of a VAD tree image
PageBytes == 16     \* bytes of a handle table page (0x1000 in the code)
MaxLevel == 2       \* highest level count in the low bits of TableCode
NumTargets == 5     \* 8-byte aligned addresses a fast reference may hold
NumHeaders == 2     \* addresses an _OBJECT_HEADER may lie at
NumSubOffsets == 2  \* nonzero values a <name>Offset member may hold
NumFrames == 2      \* physical page frames of a candidate address space
MaxOffset == 7      \* highest offset an _MMVAD is constructed at
NumLengths == 2     \* Length values tried on each side of the limits
NumTables == 2      \* directory table bases a process may have
NumKcbs == 3        \* key control blocks in an image

\* get_item gave no object header (item == None), or nothing was yielded yet
NoItem == [HandleValue |-> -1, path |-> <<>>, entry |-> "none"]

\* obj.NoneObject: the absent value
NoneObject == [type |-> "NoneObject", offset |-> 0]

\* No method of a _UNICODE_STRING returned yet
NoResult == [value |-> "none", read |-> FALSE]

\* Python's None, and the object not built yet
PyNone == [obj |-> "None", truth |-> FALSE]
NoObject == [type |-> "none", offset |-> 0, parent |-> PyNone]

\* No leaf entry failed its validity check yet
NoBreak == [path |-> <<>>, level |-> -1]

Configs == {"cfgA", "cfgB"}
Messages == {"m1", "m2"}

\* ------------------------------------------------------------------------
\* load_as
\* ------------------------------------------------------------------------
other_than_as ==
    <<list_vars, vad_vars, handle_vars, fastref_vars, optional_vars,
      valid_vars, schema_vars, mmvad_vars, unicode_vars, proc_vars,
      key_vars>>

NoError == <<"NoError">>
NoOutcome == [pc |-> "none", chain |-> <<>>, reasons |-> <<>>]

\* registry.AS_CLASSES.classes: the ordered catalogue
AS_CLASSES == [i \in 1..NumClasses |-> i]

\* cls.__name__
ClsName(cls) == <<"AS", cls>>

\* The layer types and parameters under a layer, innermost first
RECURSIVE ChainOf(_, _)
ChainOf(heap, id) ==
    IF id = 0 THEN <<>>
    ELSE Append(ChainOf(heap, heap[id].base),
                [cls |-> heap[id].cls, kwargs |-> heap[id].kwargs])

Terminal == {"returned", "raised", "fault"}

Accept == [kind |-> "accept", reason |-> ""]
Fault == [kind |-> "fault", reason |-> ""]
Reject(m) == [kind |-> "reject", reason |-> m]
Verdicts == {Accept, Fault} \cup {Reject(m) : m \in Messages}

\* What the constructor cls(base, **kw) may answer: the answer it gave
\* before for the same (cls, base, kw), else any answer the image allows.
Answers(cls, base, kw) ==
    LET key == <<cls, ChainOf(layers, base), kw>>
        known == {v \in verdict : v.key = key}
    IN  IF known # {} THEN {v.out : v \in known}
        ELSE IF Len(ChainOf(layers, base)) >= MaxLayers THEN Verdicts \ {Accept}
        ELSE Verdicts

Remember(cls, base, kw, out) ==
    verdict \cup {[key |-> <<cls, ChainOf(layers, base), kw>>, out |-> out]}

\* Faulty variant: an error object that keeps only the latest reason
append_reason_last(list, driver, reason) == <<<<driver, reason>>>>

\* AddrSpaceError.append_reason
append_reason(list, driver, reason) == Append(list, <<driver, reason>>)

Outcome == [pc |-> as_pc,
            chain |-> ChainOf(layers, result),
            reasons |-> IF raisedErr = NoError THEN <<>> ELSE raisedErr]

\* Faulty variant: one error object shared by every call of load_as
NewErrorShared(old) == old

\* The error object a call starts with: AddrSpaceError() has no reasons
NewError(old) == <<>>

\* def load_as(**kwargs): base_as = None; error = AddrSpaceError()
Call ==
    /\ as_pc \in {"idle"} \cup Terminal
    /\ run < MaxRuns
    /\ run' = run + 1
    /\ first' = IF run = 1 THEN Outcome ELSE first
    /\ layers' = <<>>
    /\ base_as' = 0
    /\ reasons' = NewError(reasons)
    /\ raisedErr' = NoError
    /\ result' = 0
    /\ attempts' = <<>>
    /\ round' = 0
    /\ found' = FALSE
    /\ idx' = 1
    /\ as_pc' = "round"
    /\ UNCHANGED <<kwargs, verdict>>
    /\ UNCHANGED other_than_as

\* Faulty variant: a round that resumes the scan after the last winner
RoundStartResume ==
    /\ as_pc = "round"
    /\ found' = FALSE
    /\ round' = round + 1
    /\ as_pc' = IF NumClasses = 0 THEN "roundend" ELSE "try"
    /\ UNCHANGED <<run, kwargs, layers, base_as, idx, reasons, raisedErr, result,
                   attempts, verdict, first>>
    /\ UNCHANGED other_than_as

\* while 1: found = False; for cls in registry.AS_CLASSES.classes:
RoundStart ==
    /\ as_pc = "round"
    /\ found' = FALSE
    /\ idx' = 1
    /\ round' = round + 1
    /\ as_pc' = IF NumClasses = 0 THEN "roundend" ELSE "try"
    /\ UNCHANGED <<run, kwargs, layers, base_as, reasons, raisedErr, result,
                   attempts, verdict, first>>
    /\ UNCHANGED other_than_as

Logged(out) ==
    Append(attempts, [round |-> round, cls |-> AS_CLASSES[idx], base |-> base_as,
                      kwargs |-> kwargs, out |-> out])

\* Where the for loop goes after `continue`
NextCandidate(i) == i + 1

\* Faulty variant: every accepted layer is constructed over the raw (null) base
TryAcceptOverRaw ==
    /\ as_pc = "try"
    /\ Accept \in Answers(AS_CLASSES[idx], base_as, kwargs)
    /\ layers' = Append(layers, [cls |-> AS_CLASSES[idx], base |-> 0,
                                 kwargs |-> kwargs])
    /\ base_as' = Len(layers) + 1
    /\ found' = TRUE
    /\ as_pc' = "roundend"
    /\ attempts' = Logged(Accept)
    /\ verdict' = Remember(AS_CLASSES[idx], base_as, kwargs, Accept)
    /\ UNCHANGED <<run, kwargs, idx, round, reasons, raisedErr, result, first>>
    /\ UNCHANGED other_than_as

\* base_as = cls(base_as, **kwargs) succeeds: found = True; break
TryAccept ==
    /\ as_pc = "try"
    /\ Accept \in Answers(AS_CLASSES[idx], base_as, kwargs)
    /\ layers' = Append(layers, [cls |-> AS_CLASSES[idx], base |-> base_as,
                                 kwargs |-> kwargs])
    /\ base_as' = Len(layers) + 1
    /\ found' = TRUE
    /\ as_pc' = "roundend"
    /\ attempts' = Logged(Accept)
    /\ verdict' = Remember(AS_CLASSES[idx], base_as, kwargs, Accept)
    /\ UNCHANGED <<run, kwargs, idx, round, reasons, raisedErr, result, first>>
    /\ UNCHANGED other_than_as

\* Faulty variant: a rejection that resets the current layer to the null base
TryRejectResetBase ==
    /\ as_pc = "try"
    /\ \E m \in Messages :
        /\ Reject(m) \in Answers(AS_CLASSES[idx], base_as, kwargs)
        /\ reasons' = append_reason(reasons, ClsName(AS_CLASSES[idx]), m)
        /\ attempts' = Logged(Reject(m))
        /\ verdict' = Remember(AS_CLASSES[idx], base_as, kwargs, Reject(m))
    /\ idx' = NextCandidate(idx)
    /\ as_pc' = IF NextCandidate(idx) > NumClasses THEN "roundend" ELSE "try"
    /\ base_as' = 0
    /\ UNCHANGED <<run, kwargs, layers, found, round, raisedErr, result, first>>
    /\ UNCHANGED other_than_as

\* except AssertionError, e: error.append_reason(cls.__name__, e); continue
TryReject ==
    /\ as_pc = "try"
    /\ \E m \in Messages :
        /\ Reject(m) \in Answers(AS_CLASSES[idx], base_as, kwargs)
        /\ reasons' = append_reason(reasons, ClsName(AS_CLASSES[idx]), m)
        /\ attempts' = Logged(Reject(m))
        /\ verdict' = Remember(AS_CLASSES[idx], base_as, kwargs, Reject(m))
    /\ idx' = NextCandidate(idx)
    /\ as_pc' = IF NextCandidate(idx) > NumClasses THEN "roundend" ELSE "try"
    /\ UNCHANGED <<run, kwargs, layers, base_as, found, round, raisedErr, result,
                   first>>
    /\ UNCHANGED other_than_as

\* Faulty variant: a bare `except:` that treats every exception as a rejection
TryFaultSwallowed ==
    /\ as_pc = "try"
    /\ Fault \in Answers(AS_CLASSES[idx], base_as, kwargs)
    /\ idx' = NextCandidate(idx)
    /\ as_pc' = IF NextCandidate(idx) > NumClasses THEN "roundend" ELSE "try"
    /\ attempts' = Logged(Fault)
    /\ verdict' = Remember(AS_CLASSES[idx], base_as, kwargs, Fault)
    /\ UNCHANGED <<run, kwargs, layers, base_as, found, round, reasons,
                   raisedErr, result, first>>
    /\ UNCHANGED other_than_as

\* any other exception of the constructor is not caught: it leaves load_as
TryFault ==
    /\ as_pc = "try"
    /\ Fault \in Answers(AS_CLASSES[idx], base_as, kwargs)
    /\ as_pc' = "fault"
    /\ attempts' = Logged(Fault)
    /\ verdict' = Remember(AS_CLASSES[idx], base_as, kwargs, Fault)
    /\ UNCHANGED <<run, kwargs, layers, base_as, found, idx, round, reasons,
                   raisedErr, result, first>>
    /\ UNCHANGED other_than_as

\* Faulty variant: load_as without the `if base_as is None: raise error` test
FinishAlwaysReturn ==
    /\ as_pc' = "returned"
    /\ raisedErr' = NoError
    /\ result' = base_as

\* Faulty variant: load_as raising whenever a rejection was recorded
FinishRaiseIfReasons ==
    /\ IF base_as = 0 \/ reasons # <<>>
       THEN /\ as_pc' = "raised"
            /\ raisedErr' = reasons
            /\ result' = 0
       ELSE /\ as_pc' = "returned"
            /\ raisedErr' = NoError
            /\ result' = base_as

\* if base_as is None: raise error;  return base_as
Finish ==
    /\ IF base_as = 0
       THEN /\ as_pc' = "raised"
            /\ raisedErr' = reasons
            /\ result' = 0
       ELSE /\ as_pc' = "returned"
            /\ raisedErr' = NoError
            /\ result' = base_as

\* Faulty variant: a resolver that gives up only after a second round
\* without a winner
RoundEndScanTwice ==
    /\ as_pc = "roundend"
    /\ IF found \/ round = Len(layers) + 1
       THEN /\ as_pc' = "round"
            /\ UNCHANGED <<raisedErr, result>>
       ELSE Finish
    /\ UNCHANGED <<run, kwargs, layers, base_as, found, idx, round, reasons,
                   attempts, verdict, first>>
    /\ UNCHANGED other_than_as

\* if not found: break   (else the while loop starts the next round)
RoundEnd ==
    /\ as_pc = "roundend"
    /\ IF found
       THEN /\ as_pc' = "round"
            /\ UNCHANGED <<raisedErr, result>>
       ELSE Finish
    /\ UNCHANGED <<run, kwargs, layers, base_as, found, idx, round, reasons,
                   attempts, verdict, first>>
    /\ UNCHANGED other_than_as

InitAS ==
    /\ as_pc = "idle"
    /\ run = 0
    /\ kwargs \in Configs
    /\ layers = <<>>
    /\ base_as = 0
    /\ found = FALSE
    /\ idx = 1
    /\ round = 0
    /\ reasons = <<>>
    /\ raisedErr = NoError
    /\ result = 0
    /\ attempts = <<>>
    /\ verdict = {}
    /\ first = NoOutcome
    \* list_of_type is not running
    /\ l_pc = "idle"
    /\ l_self = 0
    /\ l_forward = TRUE
    /\ l_off = 0
    /\ Flink = <<>>
    /\ Blink = <<>>
    /\ lst = 0
    /\ seen = {}
    /\ l_out = <<>>
    /\ admitted = {}
    \* get_vads is not running
    /\ v_pc = "idle"
    /\ VadRoot = 0
    /\ procspace = "None"
    /\ vmem = <<>>
    /\ v_stack = <<>>
    /\ visited = {}
    /\ v_out = <<>>
    \* handles is not running
    /\ h_pc = "idle"
    /\ arch = "x86"
    /\ TableCode = 0
    /\ h_stack = <<>>
    /\ h_last = NoItem
    /\ h_break = NoBreak
    \* dereference_as is not running
    /\ f_pc = "idle"
    /\ f_word = 0
    /\ f_parent = PyNone
    /\ f_out = NoObject
    \* find_optional_headers is not running
    /\ o_pc = "idle"
    /\ o_offset = 0
    /\ o_field = <<>>
    /\ o_types = {}
    /\ o_i = 1
    /\ o_attrs = <<>>
    \* generate_suggestions is not running
    /\ va_pc = "idle"
    /\ va_pae = FALSE
    /\ va_dtb = 0
    /\ va_pdpte = 0
    /\ va_vtop = <<>>
    /\ va_assert = FALSE
    /\ va_out = <<>>
    \* profile modifications is not running
    /\ s_pc = "idle"
    /\ s_registered = <<>>
    /\ s_order = <<>>
    /\ s_k = 1
    /\ s_overlay = <<>>
    /\ s_tables = {}
    /\ s_vtypes = <<>>
    /\ s_classes = {}
    /\ s_again = FALSE
    /\ s_once = <<>>
    \* _MMVAD construction is not running
    /\ n_pc = "idle"
    /\ n_offset = 0
    /\ n_tag = "unread"
    /\ n_vm = "None"
    /\ n_out = NoneObject
    \* _UNICODE_STRING is not running
    /\ u_pc = "idle"
    /\ u_Length = 0
    /\ u_Buffer = FALSE
    /\ u_data = FALSE
    /\ u_op = "none"
    /\ u_out = NoResult
    \* get_process_address_space is not running
    /\ p_pc = "idle"
    /\ p_heap = <<>>
    /\ p_vm = 0
    /\ p_dtb = 0
    /\ p_pid = 0
    /\ p_out = 0
    /\ p_before = <<>>
    \* full_key_name is not running
    /\ k_pc = "idle"
    /\ k_parent = <<>>
    /\ k_named = <<>>
    /\ k_kcb = 0
    /\ k_output = <<>>
    /\ k_result = NoResult

NextAS ==
    \/ Call
    \/ RoundStart
    \/ TryAccept
    \/ TryReject
    \/ TryFault
    \/ RoundEnd


\* ------------------------------------------------------------------------
\* Properties of load_as
\* ------------------------------------------------------------------------
\* The attempts of voting round r, in the order made
AttemptsOf(r) == SelectSeq(attempts, LAMBDA a : a.round = r)

\* Position of attempt i within its round
PosInRound(i) == Cardinality({j \in 1..i : attempts[j].round = attempts[i].round})

\* load_as returned a non-empty chain whose top layer is the one built by the
\* last accepted construction
ReturnedChain ==
    /\ as_pc = "returned"
    /\ result # 0
    /\ ChainOf(layers, result) # <<>>
    /\ raisedErr = NoError
    /\ \E i \in DOMAIN attempts :
        /\ attempts[i].out = Accept
        /\ attempts[i].cls = layers[result].cls
        /\ attempts[i].base = layers[result].base
        /\ \A j \in DOMAIN attempts : j > i => attempts[j].out # Accept

\* load_as raised AddrSpaceError with one reason per implementation attempted
\* in the round that found nothing
RaisedAll ==
    /\ as_pc = "raised"
    /\ result = 0
    /\ raisedErr # NoError
    /\ Len(raisedErr) = Len(AttemptsOf(round))
    /\ \A k \in 1..Len(raisedErr) :
        /\ AttemptsOf(round)[k].cls = AS_CLASSES[k]
        /\ raisedErr[k][1] = ClsName(AS_CLASSES[k])
    /\ Len(raisedErr) = NumClasses

\* A constructor's fault left load_as: nothing returned, no AddrSpaceError
FaultPropagated ==
    /\ as_pc = "fault"
    /\ result = 0
    /\ raisedErr = NoError
    /\ attempts # <<>>
    /\ attempts[Len(attempts)].out = Fault

\* C1 (as stated): load_as has exactly two outcomes, a returned non-empty
\* chain whose last layer was accepted, or AddrSpaceError with exactly one
\* reason per implementation attempted in the round that found nothing.
C1_TwoOutcomes == as_pc \in Terminal => (ReturnedChain \/ RaisedAll)

\* C1 (amended): load_as has exactly three outcomes: the returned non-empty
\* chain, the AddrSpaceError with one reason per implementation of the failed
\* round, or the propagation of a constructor's fault that is no rejection.
C1_ThreeOutcomes ==
    as_pc \in Terminal => (ReturnedChain \/ RaisedAll \/ FaultPropagated)

C1_Witness ==
    /\ as_pc = "raised"
    /\ NumClasses > 0
    /\ Len(raisedErr) = NumClasses

\* C2: in every round the winner is the first implementation in catalogue
\* order that does not reject; nothing later is attempted in that round; the
\* next round starts at the first entry; a round of rejections only ends
\* the algorithm.
C2_FirstAcceptWins ==
    /\ \A i \in DOMAIN attempts :
        \* the scan of a round follows the catalogue from its first entry
        /\ PosInRound(i) <= NumClasses
        /\ attempts[i].cls = AS_CLASSES[PosInRound(i)]
        \* everything tried before in the round was rejected, over the same base
        /\ \A j \in 1..(i - 1) :
            attempts[j].round = attempts[i].round
                => /\ attempts[j].out.kind = "reject"
                   /\ attempts[j].base = attempts[i].base
        \* an acceptance ends the round and its layer becomes current
        /\ attempts[i].out = Accept =>
            /\ \A j \in DOMAIN attempts : j > i => attempts[j].round > attempts[i].round
            /\ \E l \in DOMAIN layers :
                /\ layers[l].cls = attempts[i].cls
                /\ layers[l].base = attempts[i].base
                /\ IF i = Len(attempts) THEN base_as = l
                   ELSE attempts[i + 1].base = l /\ attempts[i + 1].cls = AS_CLASSES[1]
        \* a later round exists only after an acceptance
        /\ (i > 1 /\ attempts[i].round # attempts[i - 1].round) =>
            /\ attempts[i - 1].out = Accept
            /\ attempts[i].round = attempts[i - 1].round + 1
    \* a round in which every implementation rejected ends the algorithm
    /\ \A r \in 1..round :
        (Len(AttemptsOf(r)) = NumClasses
            /\ \A k \in 1..NumClasses : AttemptsOf(r)[k].out.kind = "reject")
        => (r = round /\ as_pc \in {"roundend", "returned", "raised"} /\ ~found)
    \* and nothing else ends it normally
    /\ as_pc \in {"returned", "raised"} =>
        /\ Len(AttemptsOf(round)) = NumClasses
        /\ \A k \in 1..NumClasses : AttemptsOf(round)[k].out.kind = "reject"

C2_Witness ==
    /\ NumClasses >= 2
    /\ \E i \in DOMAIN attempts :
        /\ attempts[i].out = Accept
        /\ attempts[i].cls = AS_CLASSES[2]
        /\ i < Len(attempts)
        /\ attempts[i + 1].cls = AS_CLASSES[1]
        /\ attempts[i + 1].round = attempts[i].round + 1

\* C3: on total failure the error lists, for every implementation tried and
\* in the order tried, its name with its own rejection reason.
C3_AllReasons ==
    as_pc = "raised" =>
        /\ raisedErr # NoError
        /\ Len(raisedErr) = Len(attempts)
        /\ \A i \in DOMAIN attempts :
            /\ attempts[i].out.kind = "reject"
            /\ raisedErr[i] = <<ClsName(attempts[i].cls), attempts[i].out.reason>>

C3_Witness ==
    /\ as_pc = "raised"
    /\ Len(raisedErr) >= 2
    /\ raisedErr[1][2] # raisedErr[2][2]

\* C4: once a layer was accepted load_as returns the chain and raises
\* nothing, whatever rejections were recorded; the reasons reach the caller
\* only when no layer was accepted.
C4_PartialSuccess ==
    /\ (as_pc \in {"returned", "raised"} /\ base_as # 0) =>
        /\ as_pc = "returned"
        /\ result = base_as
        /\ raisedErr = NoError
    /\ raisedErr # NoError =>
        /\ as_pc = "raised"
        /\ layers = <<>>
        /\ \A i \in DOMAIN attempts : attempts[i].out # Accept

C4_Witness ==
    /\ as_pc = "returned"
    /\ result # 0
    /\ Len(reasons) > NumClasses

\* C5: a rejection is recovered from and the scan goes on with the next
\* candidate; any other fault of a constructor leaves load_as at once: no
\* further candidate is attempted and no chain is returned.
C5_FaultAborts ==
    \A i \in DOMAIN attempts :
        /\ (attempts[i].out.kind = "reject" /\ PosInRound(i) < NumClasses) =>
            IF i = Len(attempts)
            THEN as_pc = "try" /\ AS_CLASSES[idx] = AS_CLASSES[PosInRound(i) + 1]
            ELSE /\ attempts[i + 1].round = attempts[i].round
                 /\ attempts[i + 1].cls = AS_CLASSES[PosInRound(i) + 1]
        /\ attempts[i].out = Fault =>
            /\ i = Len(attempts)
            /\ as_pc = "fault"
            /\ result = 0
            /\ raisedErr = NoError

C5_Witness ==
    /\ as_pc = "fault"
    /\ base_as # 0
    /\ idx < NumClasses
    /\ \E i \in DOMAIN attempts :
        attempts[i].out.kind = "reject" /\ PosInRound(i) < NumClasses

\* C6: a second resolution of the same image with the same configuration
\* and catalogue ends as the first did: the same layer types and parameters,
\* or the same failure with the same reason list.
C6_Deterministic ==
    (run = 2 /\ as_pc \in Terminal) => Outcome = first

C6_Witness ==
    /\ run = 2
    /\ as_pc = "returned"
    /\ Len(ChainOf(layers, result)) = MaxLayers
    /\ reasons # <<>>

\* The attempts of this call that ended in acceptance, in order
Accepted == SelectSeq(attempts, LAMBDA a : a.out = Accept)

\* The layers met by following base links from a layer, nearest first
RECURSIVE BaseLinks(_)
BaseLinks(id) ==
    IF id = 0 THEN <<>> ELSE <<id>> \o BaseLinks(layers[id].base)

\* C17: following base links from the current layer visits exactly the
\* layers accepted so far, most recent first, and ends at the null base; the
\* layer accepted in round r was constructed over the layer accepted in round
\* r - 1 (null in round 1); no step changes the base of an accepted layer.
C17_BaseLinks ==
    /\ Len(layers) = Len(Accepted)
    /\ \A r \in DOMAIN layers :
          /\ Accepted[r].round = r
          /\ layers[r].cls = Accepted[r].cls
          /\ layers[r].base = r - 1
    /\ BaseLinks(base_as) = [i \in 1..Len(layers) |-> Len(layers) + 1 - i]
    /\ as_pc = "returned" => result = base_as

\* A call returned a chain of as many layers as the image lets it stack
C17_Witness ==
    /\ as_pc = "returned"
    /\ Len(layers) = MaxLayers
    /\ MaxLayers > 1
    /\ Len(BaseLinks(result)) = MaxLayers
    /\ layers[Len(layers)].base = Len(layers) - 1

\* The steps load_as takes by itself once it has been called
StepAS ==
    \/ RoundStart
    \/ TryAccept
    \/ TryReject
    \/ TryFault
    \/ RoundEnd

Running == as_pc \in {"round", "try", "roundend"}

\* No (implementation, base) pair is attempted twice in a run, and the run
\* makes at most (k + 1) * N attempts for k accepted layers
AttemptsBounded ==
    /\ \A i, j \in DOMAIN attempts :
          i < j => <<attempts[i].cls, attempts[i].base>>
                      # <<attempts[j].cls, attempts[j].base>>
    /\ Len(attempts) <= (Len(Accepted) + 1) * NumClasses

\* C25: within one run of load_as no (implementation, base) pair is
\* attempted twice and the attempts number at most (k + 1) * N for k
\* accepted layers and N catalogue entries; a run that accepts finitely many
\* layers terminates.
C25_Terminates == []AttemptsBounded /\ (Running ~> (as_pc \in Terminal))

\* A run that made all of its (k + 1) * N attempts and ended
C25_Witness ==
    /\ as_pc \in Terminal
    /\ Len(Accepted) = MaxLayers
    /\ Len(attempts) = (MaxLayers + 1) * NumClasses

\* Every attempt of a round is made over the base and with the arguments of
\* the attempts rejected before it in that round
SameBaseInRound ==
    \A i, j \in DOMAIN attempts :
        (i < j /\ attempts[i].round = attempts[j].round)
            => /\ attempts[i].out.kind = "reject"
               /\ attempts[j].base = attempts[i].base
               /\ attempts[j].kwargs = attempts[i].kwargs

\* A rejected attempt changes neither the current layer nor the arguments
RejectKeepsLayer ==
    (Len(attempts') = Len(attempts) + 1
        /\ attempts'[Len(attempts')].out.kind = "reject")
    => (base_as' = base_as /\ layers' = layers /\ kwargs' = kwargs)

\* C26: a rejected construction attempt leaves the resolver's current layer
\* unchanged: within a round every candidate is constructed over the same
\* base and with the same configuration arguments as the candidates rejected
\* before it.
C26_RejectKeepsLayer == []SameBaseInRound /\ [][RejectKeepsLayer]_vars

\* A candidate accepted over a layer after another was rejected over it
C26_Witness ==
    \E i, j \in DOMAIN attempts :
        /\ i < j
        /\ attempts[i].round = attempts[j].round
        /\ attempts[i].out.kind = "reject"
        /\ attempts[j].out = Accept
        /\ attempts[j].base # 0


\* ------------------------------------------------------------------------
\* Memory objects (volatility.obj): pointers and validity
\* ------------------------------------------------------------------------
\* The link addresses of a list image: the header's and NumEntries others
ListAddrs == {8 * i : i \in 1..(NumEntries + 1)}
HeaderAddr == 8
ListPtrs == ListAddrs \cup {0}

\* vm.is_valid_address: in a list image exactly the link addresses are mapped
IsValidAddress(a) == a \in ListAddrs

\* Pointer.dereference(): the object at the address pointed to, or a
\* NoneObject (0) when the address is not valid
Dereference(p) == IF IsValidAddress(p) THEN p ELSE 0

\* BaseObject.is_valid() of the result of a dereference
IsValid(o) == o # 0 /\ IsValidAddress(o)

\* ------------------------------------------------------------------------
\* _LIST_ENTRY.list_of_type
\* ------------------------------------------------------------------------
other_than_list ==
    <<as_vars, vad_vars, handle_vars, fastref_vars, optional_vars,
      valid_vars, schema_vars, mmvad_vars, unicode_vars, proc_vars,
      key_vars>>

\* Faulty variant: the loop follows Flink whatever the direction asked for
LinkOfFlinkOnly(item) ==
    LET a == item + l_off
    IN  IF ~IsValidAddress(a) THEN 0 ELSE Flink[a]

\* item.m(member).Flink or .Blink of the item at offset item: the pointer
\* stored at item + offset; a NoneObject when the item is not readable
LinkOf(item) ==
    LET a == item + l_off
    IN  IF ~IsValidAddress(a) THEN 0
        ELSE IF l_forward THEN Flink[a] ELSE Blink[a]

\* obj.Object(type, offset = lst.obj_offset - offset, ...)
ItemAt(link) == link - l_off

\* Faulty variant: the header counts as seen from the start
FirstSeenWithHeader(first_lst) == {first_lst, l_self}

\* seen = set(); seen.add(lst.obj_offset)
FirstSeen(first_lst) == {first_lst}

\* if not self.is_valid(): return
\* lst = self.Flink.dereference() (or Blink); offset = ...; seen = {lst.obj_offset}
ListStart ==
    /\ l_pc = "start"
    /\ IF ~IsValidAddress(l_self)
       THEN /\ l_pc' = "done"
            /\ UNCHANGED <<lst, seen>>
       ELSE LET first_lst == Dereference(IF l_forward THEN Flink[l_self]
                                                     ELSE Blink[l_self])
            IN  /\ lst' = first_lst
                /\ seen' = FirstSeen(first_lst)
                /\ l_pc' = "loop"
    /\ UNCHANGED <<l_self, l_forward, l_off, Flink, Blink, l_out, admitted>>
    /\ UNCHANGED other_than_list

\* One turn of `while 1`: build item at lst, read its link, test it, yield item
ListIter ==
    /\ l_pc = "loop"
    /\ LET item == ItemAt(lst)
           nxt == Dereference(LinkOf(item))
       IN  IF ~IsValid(nxt) \/ nxt \in seen
           THEN /\ l_pc' = "done"
                /\ UNCHANGED <<lst, seen, l_out, admitted>>
           ELSE /\ seen' = seen \cup {nxt}
                /\ admitted' = admitted \cup {nxt}
                /\ l_out' = Append(l_out, item)
                /\ lst' = nxt
                /\ l_pc' = "loop"
    /\ UNCHANGED <<l_self, l_forward, l_off, Flink, Blink>>
    /\ UNCHANGED other_than_list

\* The unique address whose link is a, or 0: the back link of a well-formed list
InverseOf(F) ==
    [a \in ListAddrs |->
        IF Cardinality({b \in ListAddrs : F[b] = a}) = 1
        THEN CHOOSE b \in ListAddrs : F[b] = a
        ELSE 0]

\* The images of the list walk: any forward links; back links that mirror
\* them, repeat them or are null
InitList ==
    /\ l_pc = "start"
    /\ l_self \in {0, HeaderAddr}
    /\ l_forward \in BOOLEAN
    /\ l_off \in {0, 4}
    /\ Flink \in [ListAddrs -> ListPtrs]
    /\ l_self = 0 => Flink = [a \in ListAddrs |-> 0]
    /\ Blink \in {InverseOf(Flink), Flink, [a \in ListAddrs |-> 0]}
    /\ lst = 0
    /\ seen = {}
    /\ l_out = <<>>
    /\ admitted = {}
    \* load_as is not running
    /\ as_pc = "off"
    /\ run = 0
    /\ kwargs = "cfgA"
    /\ layers = <<>>
    /\ base_as = 0
    /\ found = FALSE
    /\ idx = 1
    /\ round = 0
    /\ reasons = <<>>
    /\ raisedErr = NoError
    /\ result = 0
    /\ attempts = <<>>
    /\ verdict = {}
    /\ first = NoOutcome
    \* get_vads is not running
    /\ v_pc = "idle"
    /\ VadRoot = 0
    /\ procspace = "None"
    /\ vmem = <<>>
    /\ v_stack = <<>>
    /\ visited = {}
    /\ v_out = <<>>
    \* handles is not running
    /\ h_pc = "idle"
    /\ arch = "x86"
    /\ TableCode = 0
    /\ h_stack = <<>>
    /\ h_last = NoItem
    /\ h_break = NoBreak
    \* dereference_as is not running
    /\ f_pc = "idle"
    /\ f_word = 0
    /\ f_parent = PyNone
    /\ f_out = NoObject
    \* find_optional_headers is not running
    /\ o_pc = "idle"
    /\ o_offset = 0
    /\ o_field = <<>>
    /\ o_types = {}
    /\ o_i = 1
    /\ o_attrs = <<>>
    \* generate_suggestions is not running
    /\ va_pc = "idle"
    /\ va_pae = FALSE
    /\ va_dtb = 0
    /\ va_pdpte = 0
    /\ va_vtop = <<>>
    /\ va_assert = FALSE
    /\ va_out = <<>>
    \* profile modifications is not running
    /\ s_pc = "idle"
    /\ s_registered = <<>>
    /\ s_order = <<>>
    /\ s_k = 1
    /\ s_overlay = <<>>
    /\ s_tables = {}
    /\ s_vtypes = <<>>
    /\ s_classes = {}
    /\ s_again = FALSE
    /\ s_once = <<>>
    \* _MMVAD construction is not running
    /\ n_pc = "idle"
    /\ n_offset = 0
    /\ n_tag = "unread"
    /\ n_vm = "None"
    /\ n_out = NoneObject
    \* _UNICODE_STRING is not running
    /\ u_pc = "idle"
    /\ u_Length = 0
    /\ u_Buffer = FALSE
    /\ u_data = FALSE
    /\ u_op = "none"
    /\ u_out = NoResult
    \* get_process_address_space is not running
    /\ p_pc = "idle"
    /\ p_heap = <<>>
    /\ p_vm = 0
    /\ p_dtb = 0
    /\ p_pid = 0
    /\ p_out = 0
    /\ p_before = <<>>
    \* full_key_name is not running
    /\ k_pc = "idle"
    /\ k_parent = <<>>
    /\ k_named = <<>>
    /\ k_kcb = 0
    /\ k_output = <<>>
    /\ k_result = NoResult

NextList ==
    \/ ListStart
    \/ ListIter

\* ------------------------------------------------------------------------
\* Properties of list_of_type
\* ------------------------------------------------------------------------
Range(q) == {q[i] : i \in DOMAIN q}

\* The link addresses met by following Flink from a until null or a repeat
RECURSIVE PathFrom(_, _)
PathFrom(a, acc) ==
    IF a \notin ListAddrs \/ a \in Range(acc) THEN acc
    ELSE PathFrom(Flink[a], Append(acc, a))

ForwardPath == PathFrom(Flink[HeaderAddr], <<>>)

\* header -> E1 -> ... -> EN -> EK with 1 <= K <= N: a cycle that does not
\* pass through the header
CycleList ==
    /\ l_self = HeaderAddr
    /\ l_forward
    /\ ForwardPath # <<>>
    /\ HeaderAddr \notin Range(ForwardPath)
    /\ Flink[ForwardPath[Len(ForwardPath)]] \in Range(ForwardPath)

\* C7 (list_of_type): no item is yielded twice, and every link that passed
\* the test "valid and not in seen" (other than the header, the start node)
\* has had its element yielded when the walk ends.
C7_CheckedTargetsYielded ==
    /\ \A i, j \in DOMAIN l_out : l_out[i] = l_out[j] => i = j
    /\ l_pc = "done" =>
        \A t \in admitted \ {l_self} : ItemAt(t) \in Range(l_out)

\* C8: on a list wired into a cycle (EN's next link back to EK, K <= N) the
\* forward walk yields each of E1..EN exactly once.
C8_CycleYieldsEach ==
    (l_pc = "done" /\ CycleList) =>
        l_out = [i \in 1..Len(ForwardPath) |-> ItemAt(ForwardPath[i])]

\* header -> E1 -> ... -> En -> header: following Flink from the header
\* comes back to the header (n = 0: the header links to itself)
CircularList ==
    /\ l_self = HeaderAddr
    /\ l_forward
    /\ ForwardPath # <<>>
    /\ ForwardPath[Len(ForwardPath)] = HeaderAddr

\* C18: on a well-formed circular list header -> E1 -> ... -> En -> header
\* the forward walk yields exactly E1..En in link order, each at the address
\* of its link minus the offset of the link member, and never an object
\* based on the header; for n = 0 it yields nothing.
C18_CircularYieldsAll ==
    CircularList =>
        /\ Len(l_out) < Len(ForwardPath)
        /\ \A i \in DOMAIN l_out : l_out[i] = ForwardPath[i] - l_off
        /\ HeaderAddr - l_off \notin Range(l_out)
        /\ l_pc = "done" => Len(l_out) = Len(ForwardPath) - 1

\* The walk of a circular list through every link address of the image, the
\* link member lying at a nonzero offset, has ended
C18_Witness ==
    /\ CircularList
    /\ l_pc = "done"
    /\ l_off # 0
    /\ Len(l_out) = NumEntries
    /\ l_out[NumEntries] = ForwardPath[NumEntries] - l_off


\* What list_of_type yields from lst on, in the given direction, having
\* yielded out and with the links in sn seen
RECURSIVE WalkFrom(_, _, _, _)
WalkFrom(forward, cur, sn, out) ==
    LET item == ItemAt(cur)
        a == item + l_off
        link == IF ~IsValidAddress(a) THEN 0
                ELSE IF forward THEN Flink[a] ELSE Blink[a]
        nxt == Dereference(link)
    IN  IF ~IsValid(nxt) \/ nxt \in sn THEN out
        ELSE WalkFrom(forward, nxt, sn \cup {nxt}, Append(out, item))

\* Everything list_of_type(type, member, forward) yields on this image
Yielded(forward) ==
    IF ~IsValidAddress(l_self) THEN <<>>
    ELSE LET first_lst == Dereference(IF forward THEN Flink[l_self]
                                                 ELSE Blink[l_self])
         IN  WalkFrom(forward, first_lst, FirstSeen(first_lst), <<>>)

\* header -> E1 -> ... -> En -> header by Flink, and the Blink of every
\* element and of the header leads back where Flink came from
WellFormedList ==
    /\ l_self = HeaderAddr
    /\ ForwardPath # <<>>
    /\ ForwardPath[Len(ForwardPath)] = HeaderAddr
    /\ \A a \in Range(ForwardPath) : Blink[Flink[a]] = a

\* C29: on a well-formed circular doubly-linked list (every element's Blink
\* is the inverse of Flink) backward list_of_type yields exactly the
\* elements forward list_of_type yields, in the reverse order.
C29_BackwardIsReverse ==
    /\ l_pc = "done" => l_out = Yielded(l_forward)
    /\ (l_pc = "done" /\ ~l_forward /\ WellFormedList) =>
          /\ Len(l_out) = Len(Yielded(TRUE))
          /\ \A i \in DOMAIN l_out :
                l_out[i] = Yielded(TRUE)[Len(l_out) + 1 - i]

\* The backward walk of a circular list through every link address ended
C29_Witness ==
    /\ l_pc = "done"
    /\ ~l_forward
    /\ WellFormedList
    /\ l_off # 0
    /\ Len(l_out) = NumEntries
    /\ l_out[1] = ForwardPath[NumEntries] - l_off
    /\ l_out[NumEntries] = ForwardPath[1] - l_off

\* ------------------------------------------------------------------------
\* _MMVAD, _MMVAD_SHORT.traverse, _EPROCESS.get_vads
\* ------------------------------------------------------------------------
other_than_vad ==
    <<as_vars, list_vars, handle_vars, fastref_vars, optional_vars,
      valid_vars, schema_vars, mmvad_vars, unicode_vars, proc_vars,
      key_vars>>

VadAddrs == {8 * i : i \in 1..NumVads}
VadPtrs == VadAddrs \cup {0}

\* The tags found in front of the nodes of a tree image
TreeTags == {"VadS", "Vadl", "Junk"}

Unread == [tag |-> "unread", left |-> 0, right |-> 0]

\* _MMVAD.tag_map.get(tag, None)
tag_map(tag) ==
    CASE tag = "Vadl" -> "_MMVAD_LONG"
      [] tag = "VadS" -> "_MMVAD_SHORT"
      [] tag = "Vad " -> "_MMVAD_LONG"
      [] tag = "VadF" -> "_MMVAD_SHORT"
      [] tag = "Vadm" -> "_MMVAD_LONG"
      [] OTHER -> "None"

\* Faulty variant: a node with an unknown tag stays the _MMVAD_LONG that
\* __new__ starts off with
MMVAD_new_default(mem, offset, vm) ==
    IF offset < 4 THEN NoneObject
    ELSE IF vm = "None" THEN NoneObject
    ELSE IF tag_map(mem[offset].tag) = "None"
    THEN [type |-> "_MMVAD_LONG", offset |-> offset]
    ELSE [type |-> tag_map(mem[offset].tag), offset |-> offset]

\* _MMVAD.__new__(cls, theType, offset, vm) on the image mem
MMVAD_new(mem, offset, vm) ==
    IF offset < 4 THEN NoneObject
    ELSE IF vm = "None" THEN NoneObject
    ELSE IF tag_map(mem[offset].tag) = "None" THEN NoneObject
    ELSE [type |-> tag_map(mem[offset].tag), offset |-> offset]

\* The node addresses the image has named so far: the root and the child
\* pointers read
Named(mem) ==
    ({VadRoot} \cup {mem[a].left : a \in VadAddrs} \cup {mem[a].right : a \in VadAddrs})
        \ {0}

\* A pointer read from the image: null, a node named before, or the next
\* node address not yet named (node addresses are interchangeable)
Candidates(named) ==
    {0} \cup {a \in VadAddrs : a <= 8 * (Cardinality(named) + 1)}

\* What reading the node at offset for the first time may find
Contents(mem, offset) ==
    IF offset \notin VadAddrs THEN {Unread}
    ELSE IF mem[offset] # Unread THEN {mem[offset]}
    ELSE {[tag |-> "Junk", left |-> 0, right |-> 0]}
         \cup {n \in [tag : TreeTags \ {"Junk"}, left : VadPtrs, right : VadPtrs] :
                 /\ n.left \in Candidates(Named(mem))
                 /\ n.right \in Candidates(Named(mem) \cup ({n.left} \ {0}))}

\* The image after the node at offset was read as node
Read(mem, offset, node) ==
    IF offset \in VadAddrs THEN [mem EXCEPT ![offset] = node] ELSE mem

Top == v_stack[Len(v_stack)]
Pop(st) == SubSeq(st, 1, Len(st) - 1)
WithStage(st, stage) == [st EXCEPT ![Len(st)].stage = stage]

\* procspace = self.get_process_address_space(); if procspace:
\*   vadroot = obj.Object('_MMVAD', offset = self.VadRoot, vm = procspace)
\*   if vadroot: for v in vadroot.traverse(): ...   (visited = set())
VadStart ==
    /\ v_pc = "start"
    /\ \E node \in Contents(vmem, VadRoot) :
        LET mem == Read(vmem, VadRoot, node)
            vadroot == MMVAD_new(mem, VadRoot, procspace)
        IN  /\ vmem' = IF procspace = "None" THEN vmem ELSE mem
            /\ IF procspace = "None" \/ vadroot = NoneObject
               THEN /\ v_pc' = "done"
                    /\ v_stack' = <<>>
               ELSE /\ v_pc' = "walk"
                    /\ v_stack' = <<[node |-> vadroot.offset, stage |-> "enter"]>>
    /\ visited' = {}
    /\ UNCHANGED <<VadRoot, procspace, v_out>>
    /\ UNCHANGED other_than_vad

\* visited after `yield self` has passed through the enclosing generators:
\* each of them runs visited.add(c.obj_offset); the outermost one has none
VisitedAfterYield(st, vis, node) ==
    IF Len(st) > 1 THEN vis \cup {node} ELSE vis

\* if self.obj_offset in visited: return;  yield self
VadEnter ==
    /\ v_pc = "walk"
    /\ Top.stage = "enter"
    /\ IF Top.node \in visited
       THEN /\ v_stack' = Pop(v_stack)
            /\ v_pc' = IF Len(v_stack) = 1 THEN "done" ELSE "walk"
            /\ UNCHANGED <<visited, v_out>>
       ELSE /\ v_out' = Append(v_out, Top.node)
            /\ visited' = VisitedAfterYield(v_stack, visited, Top.node)
            /\ v_stack' = WithStage(v_stack, "left")
            /\ v_pc' = "walk"
    /\ UNCHANGED <<VadRoot, procspace, vmem>>
    /\ UNCHANGED other_than_vad

\* Entering self.<child>.traverse(visited = visited): the child pointer is
\* dereferenced through _MMVAD.__new__; a NoneObject yields nothing
Descend(ptr, after) ==
    \E node \in Contents(vmem, ptr) :
        LET mem == Read(vmem, ptr, node)
            child == MMVAD_new(mem, ptr, procspace)
        IN  /\ vmem' = mem
            /\ v_stack' =
                IF child = NoneObject THEN WithStage(v_stack, after)
                ELSE Append(WithStage(v_stack, after),
                            [node |-> child.offset, stage |-> "enter"])

\* for c in self.LeftChild.traverse(visited = visited):
VadLeft ==
    /\ v_pc = "walk"
    /\ Top.stage = "left"
    /\ Descend(vmem[Top.node].left, "right")
    /\ UNCHANGED <<v_pc, VadRoot, procspace, visited, v_out>>
    /\ UNCHANGED other_than_vad

\* for c in self.RightChild.traverse(visited = visited):
VadRight ==
    /\ v_pc = "walk"
    /\ Top.stage = "right"
    /\ Descend(vmem[Top.node].right, "end")
    /\ UNCHANGED <<v_pc, VadRoot, procspace, visited, v_out>>
    /\ UNCHANGED other_than_vad

\* the generator is exhausted: back in the enclosing loop, or in get_vads
VadReturn ==
    /\ v_pc = "walk"
    /\ Top.stage = "end"
    /\ v_stack' = Pop(v_stack)
    /\ v_pc' = IF Len(v_stack) = 1 THEN "done" ELSE "walk"
    /\ UNCHANGED <<VadRoot, procspace, vmem, visited, v_out>>
    /\ UNCHANGED other_than_vad

InitVad ==
    /\ v_pc = "start"
    /\ VadRoot \in {0, 8}
    /\ procspace \in {"Process", "None"}
    /\ vmem = [a \in VadAddrs |-> Unread]
    /\ v_stack = <<>>
    /\ visited = {}
    /\ v_out = <<>>
    \* load_as is not running
    /\ as_pc = "off"
    /\ run = 0
    /\ kwargs = "cfgA"
    /\ layers = <<>>
    /\ base_as = 0
    /\ found = FALSE
    /\ idx = 1
    /\ round = 0
    /\ reasons = <<>>
    /\ raisedErr = NoError
    /\ result = 0
    /\ attempts = <<>>
    /\ verdict = {}
    /\ first = NoOutcome
    \* list_of_type is not running
    /\ l_pc = "idle"
    /\ l_self = 0
    /\ l_forward = TRUE
    /\ l_off = 0
    /\ Flink = <<>>
    /\ Blink = <<>>
    /\ lst = 0
    /\ seen = {}
    /\ l_out = <<>>
    /\ admitted = {}
    \* handles is not running
    /\ h_pc = "idle"
    /\ arch = "x86"
    /\ TableCode = 0
    /\ h_stack = <<>>
    /\ h_last = NoItem
    /\ h_break = NoBreak
    \* dereference_as is not running
    /\ f_pc = "idle"
    /\ f_word = 0
    /\ f_parent = PyNone
    /\ f_out = NoObject
    \* find_optional_headers is not running
    /\ o_pc = "idle"
    /\ o_offset = 0
    /\ o_field = <<>>
    /\ o_types = {}
    /\ o_i = 1
    /\ o_attrs = <<>>
    \* generate_suggestions is not running
    /\ va_pc = "idle"
    /\ va_pae = FALSE
    /\ va_dtb = 0
    /\ va_pdpte = 0
    /\ va_vtop = <<>>
    /\ va_assert = FALSE
    /\ va_out = <<>>
    \* profile modifications is not running
    /\ s_pc = "idle"
    /\ s_registered = <<>>
    /\ s_order = <<>>
    /\ s_k = 1
    /\ s_overlay = <<>>
    /\ s_tables = {}
    /\ s_vtypes = <<>>
    /\ s_classes = {}
    /\ s_again = FALSE
    /\ s_once = <<>>
    \* _MMVAD construction is not running
    /\ n_pc = "idle"
    /\ n_offset = 0
    /\ n_tag = "unread"
    /\ n_vm = "None"
    /\ n_out = NoneObject
    \* _UNICODE_STRING is not running
    /\ u_pc = "idle"
    /\ u_Length = 0
    /\ u_Buffer = FALSE
    /\ u_data = FALSE
    /\ u_op = "none"
    /\ u_out = NoResult
    \* get_process_address_space is not running
    /\ p_pc = "idle"
    /\ p_heap = <<>>
    /\ p_vm = 0
    /\ p_dtb = 0
    /\ p_pid = 0
    /\ p_out = 0
    /\ p_before = <<>>
    \* full_key_name is not running
    /\ k_pc = "idle"
    /\ k_parent = <<>>
    /\ k_named = <<>>
    /\ k_kcb = 0
    /\ k_output = <<>>
    /\ k_result = NoResult

NextVad ==
    \/ VadStart
    \/ VadEnter
    \/ VadLeft
    \/ VadRight
    \/ VadReturn

\* ------------------------------------------------------------------------
\* Properties of traverse
\* ------------------------------------------------------------------------
\* No node of the image read so far is its own child
NoSelfChild == \A a \in VadAddrs : vmem[a].left # a /\ vmem[a].right # a

\* C9: a walk from the root of a tree with a back-edge (a child pointer
\* aimed at an ancestor, the root included) yields each node at most once;
\* a node with an unrecognized tag is never yielded.
C9_EachNodeAtMostOnce ==
    /\ NoSelfChild => \A i, j \in DOMAIN v_out : v_out[i] = v_out[j] => i = j
    /\ \A i \in DOMAIN v_out : tag_map(vmem[v_out[i]].tag) # "None"

\* The walk the docstring of traverse describes, from the node at ptr with
\* the offsets in vis visited: the node, then its left subtree, then its
\* right subtree, every yielded node joining the one visited set
RECURSIVE PreOrder(_, _)
PreOrder(ptr, vis) ==
    IF MMVAD_new(vmem, ptr, procspace) = NoneObject \/ ptr \in vis
    THEN [out |-> <<>>, vis |-> vis]
    ELSE LET l == PreOrder(vmem[ptr].left, vis \cup {ptr})
             r == PreOrder(vmem[ptr].right, l.vis)
         IN  [out |-> <<ptr>> \o l.out \o r.out, vis |-> r.vis]

\* No child pointer of the image read so far aims at the root
NoEdgeToRoot ==
    \A a \in VadAddrs : vmem[a].left # VadRoot /\ vmem[a].right # VadRoot

\* The pre-order walk, on images without a pointer back to the root
PreOrderBelowRoot ==
    (v_pc = "done" /\ NoEdgeToRoot) => v_out = PreOrder(VadRoot, {}).out

\* C19: traverse yields the nodes in pre-order (a node, then every node of
\* its left subtree, then every node of its right subtree) with one visited
\* set shared by both subtrees: a node that both sides reach is yielded only
\* once, where the left side reaches it.
C19_PreOrderSharedVisited ==
    (v_pc = "done" /\ NoSelfChild) => v_out = PreOrder(VadRoot, {}).out

\* ------------------------------------------------------------------------
\* _HANDLE_TABLE.handles, _make_handle_array, get_item
\* ------------------------------------------------------------------------
other_than_handle ==
    <<as_vars, list_vars, vad_vars, fastref_vars, optional_vars,
      valid_vars, schema_vars, mmvad_vars, unicode_vars, proc_vars,
      key_vars>>

\* profile.get_obj_size("address")
AddressSize == IF arch = "x86" THEN 4 ELSE 8

\* profile.get_obj_size("_HANDLE_TABLE_ENTRY")
HandleEntrySize == IF arch = "x86" THEN 8 ELSE 16

\* count: the entries of a page walked at the given level
Count(level) ==
    IF level > 0 THEN PageBytes \div AddressSize
    ELSE PageBytes \div HandleEntrySize

LEVEL_MASK == 7

\* self.TableCode.v() & ~LEVEL_MASK and self.TableCode.v() & LEVEL_MASK
MaskedTableCode == TableCode - (TableCode % (LEVEL_MASK + 1))
TableLevels == TableCode % (LEVEL_MASK + 1)

\* What a valid leaf entry's Object may lead to: no header (item == None),
\* a header with a TypeIndex (or Type.Name), or a header without
EntryKinds == {"none", "typed", "untyped"}

\* Faulty variant: the level base computed with the entry count of a pointer page
handle_value_ptr_count(pos, depth) ==
    ((pos * HandleEntrySize) \div (HandleEntrySize \div 4))
        + depth * Count(1) * 4

\* handle_value of the leaf entry at index pos of a page walked at depth:
\* (entry.obj_offset - offset) / (handle_entry_size / handle_multiplier)
\*     + depth * count * handle_multiplier
handle_value(pos, depth) ==
    ((pos * HandleEntrySize) \div (HandleEntrySize \div 4))
        + depth * Count(0) * 4

\* get_item(entry, handle_value): the _OBJECT_HEADER built with
\* handle_value = handle_value, whose __init__ stores it as HandleValue
get_item(kind, value) ==
    IF kind = "none" THEN NoItem
    ELSE [HandleValue |-> value, path |-> <<>>, entry |-> kind]

HTop == h_stack[Len(h_stack)]
Path == [i \in 1..Len(h_stack) |-> h_stack[i].pos]

\* The stack after the innermost generator ended: the enclosing loop does
\* depth += 1 and takes the next entry of its page
AfterChild(st) ==
    IF st = <<>> THEN st
    ELSE [st EXCEPT ![Len(st)].depth = @ + 1, ![Len(st)].pos = @ + 1]

Return(st) == AfterChild(SubSeq(st, 1, Len(st) - 1))

\* handles(): offset = TableCode & ~7; self._make_handle_array(offset, TableCode & 7)
\* the Array at an unmapped offset is false and nothing is walked
HandlesStart ==
    /\ h_pc = "start"
    /\ IF MaskedTableCode = 0
       THEN h_pc' = "done" /\ h_stack' = <<>>
       ELSE /\ h_pc' = "walk"
            /\ h_stack' = <<[level |-> TableLevels, depth |-> 0, pos |-> 0]>>
    /\ UNCHANGED <<arch, TableCode, h_last, h_break>>
    /\ UNCHANGED other_than_handle

\* Faulty variant: an invalid entry ends the whole walk, not only its page
EntryBreakAbort ==
    /\ h_pc = "walk"
    /\ HTop.pos < Count(HTop.level)
    /\ h_stack' = <<>>
    /\ h_pc' = "done"
    /\ h_break' = IF HTop.level = 0 THEN [path |-> Path, level |-> 0]
                 ELSE h_break
    /\ UNCHANGED <<arch, TableCode, h_last>>
    /\ UNCHANGED other_than_handle

\* if not entry.is_valid(): break
EntryBreak ==
    /\ h_pc = "walk"
    /\ HTop.pos < Count(HTop.level)
    /\ h_stack' = Return(h_stack)
    /\ h_pc' = IF Len(h_stack) = 1 THEN "done" ELSE "walk"
    /\ h_break' = IF HTop.level = 0 THEN [path |-> Path, level |-> 0]
                 ELSE h_break
    /\ UNCHANGED <<arch, TableCode, h_last>>
    /\ UNCHANGED other_than_handle

\* Faulty variant: the nested call made with the level of its caller
PointerEntrySameLevel ==
    /\ h_pc = "walk"
    /\ HTop.pos < Count(HTop.level)
    /\ HTop.level > 0
    /\ \E mapped \in BOOLEAN :
        h_stack' = IF mapped
                   THEN Append(h_stack, [level |-> HTop.level,
                                         depth |-> HTop.depth, pos |-> 0])
                   ELSE AfterChild(h_stack)
    /\ UNCHANGED <<h_pc, arch, TableCode, h_last, h_break>>
    /\ UNCHANGED other_than_handle

\* if level > 0: for h in self._make_handle_array(entry, level - 1, depth): ...
\* depth += 1
PointerEntry ==
    /\ h_pc = "walk"
    /\ HTop.pos < Count(HTop.level)
    /\ HTop.level > 0
    /\ \E mapped \in BOOLEAN :
        h_stack' = IF mapped
                   THEN Append(h_stack, [level |-> HTop.level - 1,
                                         depth |-> HTop.depth, pos |-> 0])
                   ELSE AfterChild(h_stack)
    /\ UNCHANGED <<h_pc, arch, TableCode, h_last, h_break>>
    /\ UNCHANGED other_than_handle

\* else: handle_value = ...; item = self.get_item(entry, handle_value)
\* if item == None: continue;  if item.TypeIndex != 0x0: yield item
LeafEntry ==
    /\ h_pc = "walk"
    /\ HTop.pos < Count(HTop.level)
    /\ HTop.level = 0
    /\ \E kind \in EntryKinds :
        LET item == get_item(kind, handle_value(HTop.pos, HTop.depth))
        IN  h_last' = IF item # NoItem /\ kind = "typed"
                      THEN [item EXCEPT !.path = Path]
                      ELSE h_last
    /\ h_stack' = [h_stack EXCEPT ![Len(h_stack)].pos = @ + 1]
    /\ UNCHANGED <<h_pc, arch, TableCode, h_break>>
    /\ UNCHANGED other_than_handle

\* for entry in table: is exhausted
PageEnd ==
    /\ h_pc = "walk"
    /\ HTop.pos = Count(HTop.level)
    /\ h_stack' = Return(h_stack)
    /\ h_pc' = IF Len(h_stack) = 1 THEN "done" ELSE "walk"
    /\ UNCHANGED <<arch, TableCode, h_last, h_break>>
    /\ UNCHANGED other_than_handle

InitHandle ==
    /\ h_pc = "start"
    /\ arch \in {"x86", "x64"}
    /\ TableCode \in {base + lvl : base \in {0, 64}, lvl \in 0..MaxLevel}
    /\ h_stack = <<>>
    /\ h_last = NoItem
    /\ h_break = NoBreak
    \* load_as is not running
    /\ as_pc = "off"
    /\ run = 0
    /\ kwargs = "cfgA"
    /\ layers = <<>>
    /\ base_as = 0
    /\ found = FALSE
    /\ idx = 1
    /\ round = 0
    /\ reasons = <<>>
    /\ raisedErr = NoError
    /\ result = 0
    /\ attempts = <<>>
    /\ verdict = {}
    /\ first = NoOutcome
    \* list_of_type is not running
    /\ l_pc = "idle"
    /\ l_self = 0
    /\ l_forward = TRUE
    /\ l_off = 0
    /\ Flink = <<>>
    /\ Blink = <<>>
    /\ lst = 0
    /\ seen = {}
    /\ l_out = <<>>
    /\ admitted = {}
    \* get_vads is not running
    /\ v_pc = "idle"
    /\ VadRoot = 0
    /\ procspace = "None"
    /\ vmem = <<>>
    /\ v_stack = <<>>
    /\ visited = {}
    /\ v_out = <<>>
    \* dereference_as is not running
    /\ f_pc = "idle"
    /\ f_word = 0
    /\ f_parent = PyNone
    /\ f_out = NoObject
    \* find_optional_headers is not running
    /\ o_pc = "idle"
    /\ o_offset = 0
    /\ o_field = <<>>
    /\ o_types = {}
    /\ o_i = 1
    /\ o_attrs = <<>>
    \* generate_suggestions is not running
    /\ va_pc = "idle"
    /\ va_pae = FALSE
    /\ va_dtb = 0
    /\ va_pdpte = 0
    /\ va_vtop = <<>>
    /\ va_assert = FALSE
    /\ va_out = <<>>
    \* profile modifications is not running
    /\ s_pc = "idle"
    /\ s_registered = <<>>
    /\ s_order = <<>>
    /\ s_k = 1
    /\ s_overlay = <<>>
    /\ s_tables = {}
    /\ s_vtypes = <<>>
    /\ s_classes = {}
    /\ s_again = FALSE
    /\ s_once = <<>>
    \* _MMVAD construction is not running
    /\ n_pc = "idle"
    /\ n_offset = 0
    /\ n_tag = "unread"
    /\ n_vm = "None"
    /\ n_out = NoneObject
    \* _UNICODE_STRING is not running
    /\ u_pc = "idle"
    /\ u_Length = 0
    /\ u_Buffer = FALSE
    /\ u_data = FALSE
    /\ u_op = "none"
    /\ u_out = NoResult
    \* get_process_address_space is not running
    /\ p_pc = "idle"
    /\ p_heap = <<>>
    /\ p_vm = 0
    /\ p_dtb = 0
    /\ p_pid = 0
    /\ p_out = 0
    /\ p_before = <<>>
    \* full_key_name is not running
    /\ k_pc = "idle"
    /\ k_parent = <<>>
    /\ k_named = <<>>
    /\ k_kcb = 0
    /\ k_output = <<>>
    /\ k_result = NoResult

NextHandle ==
    \/ HandlesStart
    \/ EntryBreak
    \/ PointerEntry
    \/ LeafEntry
    \/ PageEnd

\* ------------------------------------------------------------------------
\* Properties of the handle table walk
\* ------------------------------------------------------------------------
\* C10: in a 2-level table (TableCode level 1) every yielded header carries
\* HandleValue = position + depth * page_capacity * 4, with position 4 times
\* the entry's index in its leaf page, depth the index of the leaf page in
\* the pointer page and page_capacity the leaf entries per page; only valid
\* leaf entries that resolve to a typed header are reported.
C10_HandleValue ==
    (TableLevels = 1 /\ h_last # NoItem) =>
        /\ Len(h_last.path) = 2
        /\ h_last.path[1] < PageBytes \div AddressSize
        /\ h_last.path[2] < PageBytes \div HandleEntrySize
        /\ h_last.HandleValue =
              4 * h_last.path[2]
                + h_last.path[1] * (PageBytes \div HandleEntrySize) * 4
        /\ h_last.entry = "typed"

C10_Witness ==
    /\ TableLevels = 1
    /\ h_last # NoItem
    /\ h_last.path[1] >= 2
    /\ h_last.path[2] >= 1
    /\ h_last.HandleValue > 0

\* Two walk positions lie in the same page
SamePage(p, q) ==
    /\ Len(p) = Len(q)
    /\ Len(p) > 0
    /\ SubSeq(p, 1, Len(p) - 1) = SubSeq(q, 1, Len(q) - 1)

\* No item comes from the page of the last invalid leaf entry at or after
\* that entry
NothingAfterBreak ==
    (h_break.level = 0 /\ h_last # NoItem /\ SamePage(h_last.path, h_break.path))
        => h_last.path[Len(h_last.path)] < h_break.path[Len(h_break.path)]

\* A step on which a leaf entry under a pointer page fails its check leaves
\* the walk in the pointer page, at the entry after the one of the leaf page
BreakResumesParent ==
    (h_break' # h_break /\ h_break'.level = 0 /\ Len(h_break'.path) > 1) =>
        /\ h_pc' = "walk"
        /\ Len(h_stack') = Len(h_break'.path) - 1
        /\ \A i \in 1..(Len(h_stack') - 1) : h_stack'[i].pos = h_break'.path[i]
        /\ h_stack'[Len(h_stack')].pos = h_break'.path[Len(h_stack')] + 1
        /\ h_stack'[Len(h_stack')].level = 1

\* C11: a leaf entry that fails its validity check ends the enumeration of
\* its leaf page at that entry (no later entry of the page is yielded), and
\* the walk goes on with the following entries of the parent pointer page.
C11_BreakEndsPageOnly == []NothingAfterBreak /\ [][BreakResumesParent]_vars

\* A leaf page broke at its first entry and a later leaf page of the same
\* pointer page yielded an item
C11_Witness ==
    /\ h_break.level = 0
    /\ Len(h_break.path) = 2
    /\ h_break.path[2] = 0
    /\ h_last # NoItem
    /\ Len(h_last.path) = 2
    /\ h_last.path[1] > h_break.path[1]


\* A step that yields a header from another leaf entry than the one that
\* yielded the header before it gives it another handle value
NextYieldDiffers ==
    (h_last # NoItem /\ h_last' # h_last /\ h_last'.path # h_last.path)
        => h_last'.HandleValue # h_last.HandleValue

\* C27: for a handle table of any level count (leaf page only, one level of
\* pointer pages, two levels of pointer pages), two distinct leaf entries
\* reached by the walk never receive the same handle value.
C27_DistinctValues == [][NextYieldDiffers]_vars


\* The nested calls in progress: the outermost has the level of TableCode,
\* each nested one the level below its caller's, and no call is past the
\* entry count of its page
StackShape ==
    /\ Len(h_stack) <= TableLevels + 1
    /\ TableLevels + 1 <= LEVEL_MASK + 1
    /\ \A i \in DOMAIN h_stack :
          /\ h_stack[i].level = TableLevels - (i - 1)
          /\ h_stack[i].pos <= Count(h_stack[i].level)

\* C28: handles terminates on every image without a visited set: the walk
\* starts at the level TableCode & 7, the level decreases by one at each
\* recursion, so the recursion is at most level + 1 <= 8 deep, and each page
\* contributes at most its entry count, whatever its pointers lead to.
C28_Terminates == []StackShape /\ <>(h_pc = "done")

\* A walk through two levels of pointer pages that yielded a header ended
C28_Witness ==
    /\ h_pc = "done"
    /\ TableLevels = MaxLevel
    /\ h_last # NoItem
    /\ Len(h_last.path) = MaxLevel + 1

\* ------------------------------------------------------------------------
\* _EX_FAST_REF.dereference_as
\* ------------------------------------------------------------------------
other_than_fastref ==
    <<as_vars, list_vars, vad_vars, handle_vars, optional_vars, valid_vars,
      schema_vars, mmvad_vars, unicode_vars, proc_vars, key_vars>>

MAX_FAST_REF == 7

\* The addresses a fast reference may point at, and the packed words
FastRefPointers == {8 * i : i \in 0..(NumTargets - 1)}
FastRefWords == {p + t : p \in FastRefPointers, t \in 0..MAX_FAST_REF}

\* The fast reference itself, and what a caller may pass as parent: nothing,
\* an object that tests true, or an object that tests false (__nonzero__:
\* a _UNICODE_STRING of Length 0, a zero WinTimeStamp, a _LIST_ENTRY with
\* both links null)
Self == [obj |-> "_EX_FAST_REF", truth |-> TRUE]
ParentArgs == {PyNone, [obj |-> "given", truth |-> TRUE],
                       [obj |-> "given", truth |-> FALSE]}

\* Python's `a or b`: a when bool(a) is true, else b
PyOr(a, b) == IF a.truth THEN a ELSE b

\* value & ~mask for a mask of the form 2^k - 1
AndNot(value, mask) == value - (value % (mask + 1))

\* obj.Object(theType, self.Object.v() & ~self.MAX_FAST_REF,
\*            self.obj_native_vm, parent = parent or self, **kwargs)
dereference_as(theType, word, parent) ==
    [type |-> theType, offset |-> AndNot(word, MAX_FAST_REF),
     parent |-> PyOr(parent, Self)]

DereferenceAs ==
    /\ f_pc = "call"
    /\ f_out' = dereference_as("_OBJECT_HEADER", f_word, f_parent)
    /\ f_pc' = "done"
    /\ UNCHANGED <<f_word, f_parent>>
    /\ UNCHANGED other_than_fastref

InitFastRef ==
    /\ f_pc = "call"
    /\ f_word \in FastRefWords
    /\ f_parent \in ParentArgs
    /\ f_out = NoObject
    \* load_as is not running
    /\ as_pc = "off"
    /\ run = 0
    /\ kwargs = "cfgA"
    /\ layers = <<>>
    /\ base_as = 0
    /\ found = FALSE
    /\ idx = 1
    /\ round = 0
    /\ reasons = <<>>
    /\ raisedErr = NoError
    /\ result = 0
    /\ attempts = <<>>
    /\ verdict = {}
    /\ first = NoOutcome
    \* list_of_type is not running
    /\ l_pc = "idle"
    /\ l_self = 0
    /\ l_forward = TRUE
    /\ l_off = 0
    /\ Flink = <<>>
    /\ Blink = <<>>
    /\ lst = 0
    /\ seen = {}
    /\ l_out = <<>>
    /\ admitted = {}
    \* get_vads is not running
    /\ v_pc = "idle"
    /\ VadRoot = 0
    /\ procspace = "None"
    /\ vmem = <<>>
    /\ v_stack = <<>>
    /\ visited = {}
    /\ v_out = <<>>
    \* handles is not running
    /\ h_pc = "idle"
    /\ arch = "x86"
    /\ TableCode = 0
    /\ h_stack = <<>>
    /\ h_last = NoItem
    /\ h_break = NoBreak
    \* find_optional_headers is not running
    /\ o_pc = "idle"
    /\ o_offset = 0
    /\ o_field = <<>>
    /\ o_types = {}
    /\ o_i = 1
    /\ o_attrs = <<>>
    \* generate_suggestions is not running
    /\ va_pc = "idle"
    /\ va_pae = FALSE
    /\ va_dtb = 0
    /\ va_pdpte = 0
    /\ va_vtop = <<>>
    /\ va_assert = FALSE
    /\ va_out = <<>>
    \* profile modifications is not running
    /\ s_pc = "idle"
    /\ s_registered = <<>>
    /\ s_order = <<>>
    /\ s_k = 1
    /\ s_overlay = <<>>
    /\ s_tables = {}
    /\ s_vtypes = <<>>
    /\ s_classes = {}
    /\ s_again = FALSE
    /\ s_once = <<>>
    \* _MMVAD construction is not running
    /\ n_pc = "idle"
    /\ n_offset = 0
    /\ n_tag = "unread"
    /\ n_vm = "None"
    /\ n_out = NoneObject
    \* _UNICODE_STRING is not running
    /\ u_pc = "idle"
    /\ u_Length = 0
    /\ u_Buffer = FALSE
    /\ u_data = FALSE
    /\ u_op = "none"
    /\ u_out = NoResult
    \* get_process_address_space is not running
    /\ p_pc = "idle"
    /\ p_heap = <<>>
    /\ p_vm = 0
    /\ p_dtb = 0
    /\ p_pid = 0
    /\ p_out = 0
    /\ p_before = <<>>
    \* full_key_name is not running
    /\ k_pc = "idle"
    /\ k_parent = <<>>
    /\ k_named = <<>>
    /\ k_kcb = 0
    /\ k_output = <<>>
    /\ k_result = NoResult

NextFastRef ==
    \/ DereferenceAs

\* ------------------------------------------------------------------------
\* Properties of dereference_as
\* ------------------------------------------------------------------------
\* The target is built at the pointer part of the packed word
FastRefAtPointer ==
    f_pc = "done" =>
        \E p \in FastRefPointers, t \in 0..MAX_FAST_REF :
            f_word = p + t /\ f_out.offset = p

\* The parent of the target is the parent argument if one was passed
FastRefParentGiven ==
    f_pc = "done" =>
        f_out.parent = IF f_parent # PyNone THEN f_parent ELSE Self

\* C12: for every packed word pointer | tag (pointer 8-byte aligned, tag in
\* 0..7) dereference_as builds the target at exactly pointer, whatever the
\* tag; the target's parent is the parent argument when one is given and the
\* fast reference itself otherwise.
C12_MaskedPointerAndParent == FastRefAtPointer /\ FastRefParentGiven

\* ------------------------------------------------------------------------
\* _OBJECT_HEADER.find_optional_headers
\* ------------------------------------------------------------------------
other_than_optional ==
    <<as_vars, list_vars, vad_vars, handle_vars, fastref_vars, valid_vars,
      schema_vars, mmvad_vars, unicode_vars, proc_vars, key_vars>>

optional_headers ==
    << [name |-> "NameInfo", objtype |-> "_OBJECT_HEADER_NAME_INFO"],
       [name |-> "HandleInfo", objtype |-> "_OBJECT_HEADER_HANDLE_INFO"],
       [name |-> "QuotaInfo", objtype |-> "_OBJECT_HEADER_QUOTA_INFO"] >>

HeaderNames == {optional_headers[i].name : i \in DOMAIN optional_headers}
HeaderTypes == {optional_headers[i].objtype : i \in DOMAIN optional_headers}

\* Where an _OBJECT_HEADER may lie, and what a <name>Offset member may hold
HeaderOffsets == {32 * i : i \in 1..NumHeaders}
SubOffsets == {8 * i : i \in 0..NumSubOffsets}

\* An attribute that newattr never created
Unset == [type |-> "unset", offset |-> 0]

\* self.obj_vm.profile.has_type(objtype)
has_type(objtype) == objtype \in o_types

\* Faulty variant: the sub-record looked for after the header, not before it
optional_header_after(objtype, offset, header_offset) ==
    IF header_offset # 0
    THEN [type |-> objtype, offset |-> offset + header_offset]
    ELSE NoneObject

\* if header_offset: o = obj.Object(objtype, offset - header_offset, ...)
\* else: o = obj.NoneObject("Header not set")
optional_header(objtype, offset, header_offset) ==
    IF header_offset # 0
    THEN [type |-> objtype, offset |-> offset - header_offset]
    ELSE NoneObject

\* Faulty variant: the loop gives up at the first sub-record that is not set
HeaderIterStopAtAbsent ==
    /\ o_pc = "loop"
    /\ o_i <= Len(optional_headers)
    /\ LET name == optional_headers[o_i].name
           objtype == optional_headers[o_i].objtype
       IN  /\ o_attrs' =
                IF has_type(objtype)
                THEN [o_attrs EXCEPT
                        ![name] = optional_header(objtype, o_offset, o_field[name])]
                ELSE o_attrs
           /\ o_i' = IF has_type(objtype) /\ o_field[name] # 0
                     THEN o_i + 1
                     ELSE Len(optional_headers) + 1
    /\ UNCHANGED <<o_pc, o_offset, o_field, o_types>>
    /\ UNCHANGED other_than_optional

\* for name, objtype in self.optional_headers:
\*     if self.obj_vm.profile.has_type(objtype): ...; self.newattr(name, o)
HeaderIter ==
    /\ o_pc = "loop"
    /\ o_i <= Len(optional_headers)
    /\ LET name == optional_headers[o_i].name
           objtype == optional_headers[o_i].objtype
       IN  o_attrs' =
             IF has_type(objtype)
             THEN [o_attrs EXCEPT
                     ![name] = optional_header(objtype, o_offset, o_field[name])]
             ELSE o_attrs
    /\ o_i' = o_i + 1
    /\ UNCHANGED <<o_pc, o_offset, o_field, o_types>>
    /\ UNCHANGED other_than_optional

\* the for loop is exhausted
HeadersEnd ==
    /\ o_pc = "loop"
    /\ o_i > Len(optional_headers)
    /\ o_pc' = "done"
    /\ UNCHANGED <<o_offset, o_field, o_types, o_i, o_attrs>>
    /\ UNCHANGED other_than_optional

InitOptional ==
    /\ o_pc = "loop"
    /\ o_offset \in HeaderOffsets
    /\ o_field \in [HeaderNames -> SubOffsets]
    /\ o_types \in SUBSET HeaderTypes
    /\ o_i = 1
    /\ o_attrs = [n \in HeaderNames |-> Unset]
    \* load_as is not running
    /\ as_pc = "off"
    /\ run = 0
    /\ kwargs = "cfgA"
    /\ layers = <<>>
    /\ base_as = 0
    /\ found = FALSE
    /\ idx = 1
    /\ round = 0
    /\ reasons = <<>>
    /\ raisedErr = NoError
    /\ result = 0
    /\ attempts = <<>>
    /\ verdict = {}
    /\ first = NoOutcome
    \* list_of_type is not running
    /\ l_pc = "idle"
    /\ l_self = 0
    /\ l_forward = TRUE
    /\ l_off = 0
    /\ Flink = <<>>
    /\ Blink = <<>>
    /\ lst = 0
    /\ seen = {}
    /\ l_out = <<>>
    /\ admitted = {}
    \* get_vads is not running
    /\ v_pc = "idle"
    /\ VadRoot = 0
    /\ procspace = "None"
    /\ vmem = <<>>
    /\ v_stack = <<>>
    /\ visited = {}
    /\ v_out = <<>>
    \* handles is not running
    /\ h_pc = "idle"
    /\ arch = "x86"
    /\ TableCode = 0
    /\ h_stack = <<>>
    /\ h_last = NoItem
    /\ h_break = NoBreak
    \* dereference_as is not running
    /\ f_pc = "idle"
    /\ f_word = 0
    /\ f_parent = PyNone
    /\ f_out = NoObject
    \* generate_suggestions is not running
    /\ va_pc = "idle"
    /\ va_pae = FALSE
    /\ va_dtb = 0
    /\ va_pdpte = 0
    /\ va_vtop = <<>>
    /\ va_assert = FALSE
    /\ va_out = <<>>
    \* profile modifications is not running
    /\ s_pc = "idle"
    /\ s_registered = <<>>
    /\ s_order = <<>>
    /\ s_k = 1
    /\ s_overlay = <<>>
    /\ s_tables = {}
    /\ s_vtypes = <<>>
    /\ s_classes = {}
    /\ s_again = FALSE
    /\ s_once = <<>>
    \* _MMVAD construction is not running
    /\ n_pc = "idle"
    /\ n_offset = 0
    /\ n_tag = "unread"
    /\ n_vm = "None"
    /\ n_out = NoneObject
    \* _UNICODE_STRING is not running
    /\ u_pc = "idle"
    /\ u_Length = 0
    /\ u_Buffer = FALSE
    /\ u_data = FALSE
    /\ u_op = "none"
    /\ u_out = NoResult
    \* get_process_address_space is not running
    /\ p_pc = "idle"
    /\ p_heap = <<>>
    /\ p_vm = 0
    /\ p_dtb = 0
    /\ p_pid = 0
    /\ p_out = 0
    /\ p_before = <<>>
    \* full_key_name is not running
    /\ k_pc = "idle"
    /\ k_parent = <<>>
    /\ k_named = <<>>
    /\ k_kcb = 0
    /\ k_output = <<>>
    /\ k_result = NoResult

NextOptional ==
    \/ HeaderIter
    \/ HeadersEnd

\* ------------------------------------------------------------------------
\* Properties of find_optional_headers
\* ------------------------------------------------------------------------
\* The optional headers the loop has dealt with
Resolved == {i \in DOMAIN optional_headers : i < o_i}

\* C13: for every optional sub-record whose type the schema has, a zero
\* <name>Offset gives an absent value (NoneObject) and a nonzero one gives an
\* object of the sub-record's type at primary offset minus <name>Offset.
C13_OffsetDecides ==
    \A i \in Resolved :
        LET name == optional_headers[i].name
            objtype == optional_headers[i].objtype
        IN  objtype \in o_types =>
              /\ o_field[name] = 0 => o_attrs[name] = NoneObject
              /\ o_field[name] # 0 =>
                    /\ o_attrs[name].type = objtype
                    /\ o_attrs[name].offset = o_offset - o_field[name]

\* All three types exist; one sub-record is not set, another one is
C13_Witness ==
    /\ o_pc = "done"
    /\ o_types = HeaderTypes
    /\ o_field["NameInfo"] = 0
    /\ o_attrs["NameInfo"] = NoneObject
    /\ o_field["QuotaInfo"] # 0
    /\ o_attrs["QuotaInfo"].offset < o_offset

\* What one optional header resolves to, from nothing but its own type, its
\* own <name>Offset and the place of the _OBJECT_HEADER
ResolvedAlone(i) ==
    LET name == optional_headers[i].name
        objtype == optional_headers[i].objtype
    IN  IF objtype \notin o_types THEN Unset
        ELSE IF o_field[name] = 0 THEN NoneObject
        ELSE [type |-> objtype, offset |-> o_offset - o_field[name]]

\* C14: NameInfo, HandleInfo and QuotaInfo are resolved independently: what
\* one resolves to is decided by its own type and offset alone, whatever the
\* others are; a sub-record whose type the schema lacks gets no object, for
\* every _OBJECT_HEADER.
C14_Independent ==
    o_pc = "done" =>
        \A i \in DOMAIN optional_headers :
            o_attrs[optional_headers[i].name] = ResolvedAlone(i)

\* The first sub-record is not set, the second one's type is missing, and
\* the third one is found all the same
C14_Witness ==
    /\ o_pc = "done"
    /\ "_OBJECT_HEADER_HANDLE_INFO" \notin o_types
    /\ o_types = HeaderTypes \ {"_OBJECT_HEADER_HANDLE_INFO"}
    /\ o_field["NameInfo"] = 0
    /\ o_field["HandleInfo"] # 0
    /\ o_attrs["HandleInfo"] = Unset
    /\ o_attrs["QuotaInfo"].type = "_OBJECT_HEADER_QUOTA_INFO"

\* ------------------------------------------------------------------------
\* VolatilityIA32ValidAS.generate_suggestions
\* ------------------------------------------------------------------------
other_than_valid ==
    <<as_vars, list_vars, vad_vars, handle_vars, fastref_vars,
      optional_vars, schema_vars, mmvad_vars, unicode_vars, proc_vars,
      key_vars>>

\* The virtual addresses the checks translate
SelfMapAddrs == {"0xc0300000", "0xc0600000"}
SharedAddrs == {"0xffdf0000", "0x7ffe0000"}

\* Physical page addresses; 0 stands for the None that vtop gives for an
\* address without a translation
Frames == {4096 * i : i \in 1..NumFrames}

\* value & 0xffffffffff000 for a value below 2^52
PageOf(value) == value - (value % 4096)

\* self.obj_vm.vtop(addr)
vtop(addr) == va_vtop[addr]

\* Faulty variant: the non-PAE self-map address used for PAE spaces as well
pde_base_no_pae == "0xc0300000"

\* pde_base: 0xc0600000 if self.obj_vm.pae else 0xc0300000
pde_base == IF va_pae THEN "0xc0600000" ELSE "0xc0300000"

\* pd: get_pdpte(0) & 0xffffffffff000 if self.obj_vm.pae else self.obj_vm.dtb
pd == IF va_pae THEN PageOf(va_pdpte) ELSE va_dtb

\* Faulty variant: an ASAssertionError in the self-map check rejects the space
SelfMapCheckAssertRejects ==
    /\ va_pc = "selfmap"
    /\ IF va_assert
       THEN va_out' = Append(va_out, FALSE) /\ va_pc' = "done"
       ELSE IF vtop(pde_base) = pd
       THEN va_out' = Append(va_out, TRUE) /\ va_pc' = "done"
       ELSE va_out' = va_out /\ va_pc' = "shared"
    /\ UNCHANGED <<va_pae, va_dtb, va_pdpte, va_vtop, va_assert>>
    /\ UNCHANGED other_than_valid

\* try: ... if (self.obj_vm.vtop(pde_base) == pd): yield True; raise StopIteration
\* except addrspace.ASAssertionError, _e: pass
SelfMapCheck ==
    /\ va_pc = "selfmap"
    /\ IF ~va_assert /\ vtop(pde_base) = pd
       THEN va_out' = Append(va_out, TRUE) /\ va_pc' = "done"
       ELSE va_out' = va_out /\ va_pc' = "shared"
    /\ UNCHANGED <<va_pae, va_dtb, va_pdpte, va_vtop, va_assert>>
    /\ UNCHANGED other_than_valid

\* if (self.obj_vm.vtop(0xffdf0000)) == (self.obj_vm.vtop(0x7ffe0000)):
\*     if self.obj_vm.vtop(0xffdf0000) != None: yield True; raise StopIteration
SharedPageCheck ==
    /\ va_pc = "shared"
    /\ IF vtop("0xffdf0000") = vtop("0x7ffe0000") /\ vtop("0xffdf0000") # 0
       THEN va_out' = Append(va_out, TRUE) /\ va_pc' = "done"
       ELSE va_out' = va_out /\ va_pc' = "final"
    /\ UNCHANGED <<va_pae, va_dtb, va_pdpte, va_vtop, va_assert>>
    /\ UNCHANGED other_than_valid

\* yield False
YieldFalse ==
    /\ va_pc = "final"
    /\ va_out' = Append(va_out, FALSE)
    /\ va_pc' = "done"
    /\ UNCHANGED <<va_pae, va_dtb, va_pdpte, va_vtop, va_assert>>
    /\ UNCHANGED other_than_valid

InitValid ==
    /\ va_pc = "selfmap"
    /\ va_pae \in BOOLEAN
    /\ va_dtb \in Frames
    /\ va_pdpte \in {f + flags : f \in Frames, flags \in {0, 1}}
    /\ va_vtop \in [SelfMapAddrs \cup SharedAddrs -> Frames \cup {0}]
    /\ va_assert \in BOOLEAN
    /\ va_out = <<>>
    \* load_as is not running
    /\ as_pc = "off"
    /\ run = 0
    /\ kwargs = "cfgA"
    /\ layers = <<>>
    /\ base_as = 0
    /\ found = FALSE
    /\ idx = 1
    /\ round = 0
    /\ reasons = <<>>
    /\ raisedErr = NoError
    /\ result = 0
    /\ attempts = <<>>
    /\ verdict = {}
    /\ first = NoOutcome
    \* list_of_type is not running
    /\ l_pc = "idle"
    /\ l_self = 0
    /\ l_forward = TRUE
    /\ l_off = 0
    /\ Flink = <<>>
    /\ Blink = <<>>
    /\ lst = 0
    /\ seen = {}
    /\ l_out = <<>>
    /\ admitted = {}
    \* get_vads is not running
    /\ v_pc = "idle"
    /\ VadRoot = 0
    /\ procspace = "None"
    /\ vmem = <<>>
    /\ v_stack = <<>>
    /\ visited = {}
    /\ v_out = <<>>
    \* handles is not running
    /\ h_pc = "idle"
    /\ arch = "x86"
    /\ TableCode = 0
    /\ h_stack = <<>>
    /\ h_last = NoItem
    /\ h_break = NoBreak
    \* dereference_as is not running
    /\ f_pc = "idle"
    /\ f_word = 0
    /\ f_parent = PyNone
    /\ f_out = NoObject
    \* find_optional_headers is not running
    /\ o_pc = "idle"
    /\ o_offset = 0
    /\ o_field = <<>>
    /\ o_types = {}
    /\ o_i = 1
    /\ o_attrs = <<>>
    \* profile modifications is not running
    /\ s_pc = "idle"
    /\ s_registered = <<>>
    /\ s_order = <<>>
    /\ s_k = 1
    /\ s_overlay = <<>>
    /\ s_tables = {}
    /\ s_vtypes = <<>>
    /\ s_classes = {}
    /\ s_again = FALSE
    /\ s_once = <<>>
    \* _MMVAD construction is not running
    /\ n_pc = "idle"
    /\ n_offset = 0
    /\ n_tag = "unread"
    /\ n_vm = "None"
    /\ n_out = NoneObject
    \* _UNICODE_STRING is not running
    /\ u_pc = "idle"
    /\ u_Length = 0
    /\ u_Buffer = FALSE
    /\ u_data = FALSE
    /\ u_op = "none"
    /\ u_out = NoResult
    \* get_process_address_space is not running
    /\ p_pc = "idle"
    /\ p_heap = <<>>
    /\ p_vm = 0
    /\ p_dtb = 0
    /\ p_pid = 0
    /\ p_out = 0
    /\ p_before = <<>>
    \* full_key_name is not running
    /\ k_pc = "idle"
    /\ k_parent = <<>>
    /\ k_named = <<>>
    /\ k_kcb = 0
    /\ k_output = <<>>
    /\ k_result = NoResult

NextValid ==
    \/ SelfMapCheck
    \/ SharedPageCheck
    \/ YieldFalse

\* ------------------------------------------------------------------------
\* Properties of generate_suggestions
\* ------------------------------------------------------------------------
\* Translating the self-map address gives the page directory base
SelfMapHolds ==
    /\ ~va_assert
    /\ \/ ~va_pae /\ va_vtop["0xc0300000"] = va_dtb
       \/ va_pae /\ va_vtop["0xc0600000"] = PageOf(va_pdpte)

\* The two shared-page addresses translate to the same existing page
SharedPageHolds ==
    /\ va_vtop["0xffdf0000"] = va_vtop["0x7ffe0000"]
    /\ va_vtop["0xffdf0000"] # 0

\* C15: generate_suggestions yields a single verdict: True when translating
\* the self-map address (0xc0300000, or 0xc0600000 with PAE) gives the page
\* directory base itself; False when the self-map check does not hold and
\* the shared-page check fails as well.
C15_SingleVerdict ==
    /\ Len(va_out) <= 1
    /\ va_pc = "done" =>
        /\ Len(va_out) = 1
        /\ SelfMapHolds => va_out = <<TRUE>>
        /\ (~SelfMapHolds /\ ~SharedPageHolds) => va_out = <<FALSE>>

\* A PAE space whose self-map translates to the page directory base while
\* the non-PAE self-map address and the shared pages do not
C15_Witness ==
    /\ va_pc = "done"
    /\ va_pae
    /\ SelfMapHolds
    /\ va_vtop["0xc0300000"] # PageOf(va_pdpte)
    /\ va_pdpte % 4096 # 0
    /\ ~SharedPageHolds
    /\ va_out = <<TRUE>>

\* C21: an ASAssertionError raised in the self-map check does not reject the
\* space by itself: the shared-page check is still made and decides; that
\* check accepts only when 0xffdf0000 and 0x7ffe0000 translate to the same
\* address and not to None (two failed translations do not agree); False is
\* yielded only after both checks failed, and nothing follows a True.
C21_FailureFallsThrough ==
    /\ (va_assert /\ va_pc = "done") => va_out = <<SharedPageHolds>>
    /\ (va_pc = "done" /\ ~SelfMapHolds) => va_out = <<SharedPageHolds>>
    /\ \A i \in DOMAIN va_out :
          /\ va_out[i] = FALSE => (~SelfMapHolds /\ ~SharedPageHolds)
          /\ va_out[i] = TRUE => (i = Len(va_out) /\ va_pc = "done")
    /\ va_pc \in {"shared", "final"} => ~SelfMapHolds
    /\ va_pc = "final" => ~SharedPageHolds

\* The self-map check raised, on a space whose self-map address would have
\* translated to the page directory base, and the shared pages accepted it
C21_Witness ==
    /\ va_pc = "done"
    /\ va_assert
    /\ vtop(pde_base) = pd
    /\ SharedPageHolds
    /\ va_out = <<TRUE>>

\* Both shared-page translations failed, after a self-map check that raised
BothTranslationsFailed ==
    /\ va_pc = "done"
    /\ va_assert
    /\ va_vtop["0xffdf0000"] = 0
    /\ va_vtop["0x7ffe0000"] = 0
    /\ va_out = <<FALSE>>

\* ------------------------------------------------------------------------
\* Profile modifications: WindowsVTypes, WindowsOverlay, WindowsObjectClasses
\* ------------------------------------------------------------------------
other_than_schema ==
    <<as_vars, list_vars, vad_vars, handle_vars, fastref_vars,
      optional_vars, valid_vars, mmvad_vars, unicode_vars, proc_vars,
      key_vars>>

Mods == {"WindowsVTypes", "WindowsOverlay", "WindowsObjectClasses"}

\* A structure of the base profile and one that a vtypes table brings, each
\* with two fields
Structs == {"_EPROCESS", "_DBGKD_GET_VERSION64"}
SchemaFields == {"m1", "m2"}

\* A field the schema does not have, and the fields of the base profile
UndefField == [off |-> "undef", type |-> "undef"]
BaseVtypes ==
    [st \in Structs |->
        [fl \in SchemaFields |->
            IF st = "_EPROCESS" THEN [off |-> "base", type |-> "base"]
            ELSE UndefField]]

\* The patch of a field in an overlay: no entry, [None, [type]] (the offset
\* is the no-op sentinel) or [0x0, [type]]
NoPatch == [off |-> "None", type |-> "None"]
FieldPatches == {NoPatch, [off |-> "None", type |-> "overlay"],
                          [off |-> "0x0", type |-> "overlay"]}

\* Faulty variant: WindowsOverlay does not name WindowsVTypes in before
before_overlay_loose(mod) ==
    CASE mod = "WindowsOverlay" -> {"BasicObjectClasses"}
      [] mod = "WindowsVTypes" -> {"BasicObjectClasses"}
      [] mod = "WindowsObjectClasses" ->
            {"BasicObjectClasses", "WindowsVTypes", "WindowsOverlay"}

\* The before attribute of each modification
before(mod) ==
    CASE mod = "WindowsOverlay" -> {"BasicObjectClasses", "WindowsVTypes"}
      [] mod = "WindowsVTypes" -> {"BasicObjectClasses"}
      [] mod = "WindowsObjectClasses" ->
            {"BasicObjectClasses", "WindowsVTypes", "WindowsOverlay"}

\* The modifications that can go next: not placed yet, and every registered
\* modification of their before set is placed
Ready(placed, reg) ==
    {i \in DOMAIN reg :
        /\ reg[i] \notin Range(placed)
        /\ (before(reg[i]) \cap Range(reg)) \subseteq Range(placed)}

\* The order of application: a topological sort over the before sets, ties
\* broken by the order of registration
RECURSIVE Resolve(_, _)
Resolve(placed, reg) ==
    IF Ready(placed, reg) = {} THEN placed
    ELSE LET i == CHOOSE j \in Ready(placed, reg) :
                      \A k \in Ready(placed, reg) : j <= k
         IN  Resolve(Append(placed, reg[i]), reg)

\* One value of a patch merged into the value the schema has
MergeValue(old, new) == IF new = "None" THEN old ELSE new

\* profile.merge_overlay(overlay)
merge_overlay(vtypes, overlay) ==
    [st \in Structs |->
        [fl \in SchemaFields |->
            [off |-> MergeValue(vtypes[st][fl].off, overlay[st][fl].off),
             type |-> MergeValue(vtypes[st][fl].type, overlay[st][fl].type)]]]

\* profile.vtypes.update(table): every structure of the table replaces the
\* one of that name
vtypes_update(vtypes, tables) ==
    [st \in Structs |->
        IF st \in tables
        THEN [fl \in SchemaFields |-> [off |-> "vtypes", type |-> "vtypes"]]
        ELSE vtypes[st]]

\* modification(self, profile) of each class, on the pair of profile.vtypes
\* and profile.object_classes
modification(mod, vtypes, classes) ==
    CASE mod = "WindowsVTypes" -> <<vtypes_update(vtypes, s_tables), classes>>
      [] mod = "WindowsOverlay" -> <<merge_overlay(vtypes, s_overlay), classes>>
      [] mod = "WindowsObjectClasses" -> <<vtypes, classes \cup {"_EPROCESS"}>>

\* The modifications are sorted once all are registered
ResolveOrder ==
    /\ s_pc = "registered"
    /\ s_order' = Resolve(<<>>, s_registered)
    /\ s_pc' = "apply"
    /\ UNCHANGED <<s_registered, s_k, s_overlay, s_tables, s_vtypes, s_classes,
                   s_again, s_once>>
    /\ UNCHANGED other_than_schema

\* The next modification of the order is applied to the profile
ApplyModification ==
    /\ s_pc = "apply"
    /\ s_k <= Len(s_order)
    /\ LET after == modification(s_order[s_k], s_vtypes, s_classes)
       IN  s_vtypes' = after[1] /\ s_classes' = after[2]
    /\ s_k' = s_k + 1
    /\ UNCHANGED <<s_pc, s_registered, s_order, s_overlay, s_tables, s_again,
                   s_once>>
    /\ UNCHANGED other_than_schema

\* windows_overlay is merged into the profile once more
MergeAgain ==
    /\ s_pc = "apply"
    /\ ~s_again
    /\ \E i \in 1..(s_k - 1) : s_order[i] = "WindowsOverlay"
    /\ s_once' = s_vtypes
    /\ s_vtypes' = merge_overlay(s_vtypes, s_overlay)
    /\ s_again' = TRUE
    /\ UNCHANGED <<s_pc, s_registered, s_order, s_k, s_overlay, s_tables,
                   s_classes>>
    /\ UNCHANGED other_than_schema

\* Every modification was applied
ApplyEnd ==
    /\ s_pc = "apply"
    /\ s_k > Len(s_order)
    /\ s_pc' = "done"
    /\ UNCHANGED <<s_registered, s_order, s_k, s_overlay, s_tables, s_vtypes,
                   s_classes, s_again, s_once>>
    /\ UNCHANGED other_than_schema

InitSchema ==
    /\ s_pc = "registered"
    /\ s_registered \in {q \in [1..Cardinality(Mods) -> Mods] :
                            Range(q) = Mods}
    /\ s_order = <<>>
    /\ s_k = 1
    /\ s_overlay \in [Structs -> [SchemaFields -> FieldPatches]]
    /\ s_tables \in SUBSET {"_DBGKD_GET_VERSION64"}
    /\ s_vtypes = BaseVtypes
    /\ s_classes = {}
    /\ s_again = FALSE
    /\ s_once = BaseVtypes
    \* load_as is not running
    /\ as_pc = "off"
    /\ run = 0
    /\ kwargs = "cfgA"
    /\ layers = <<>>
    /\ base_as = 0
    /\ found = FALSE
    /\ idx = 1
    /\ round = 0
    /\ reasons = <<>>
    /\ raisedErr = NoError
    /\ result = 0
    /\ attempts = <<>>
    /\ verdict = {}
    /\ first = NoOutcome
    \* list_of_type is not running
    /\ l_pc = "idle"
    /\ l_self = 0
    /\ l_forward = TRUE
    /\ l_off = 0
    /\ Flink = <<>>
    /\ Blink = <<>>
    /\ lst = 0
    /\ seen = {}
    /\ l_out = <<>>
    /\ admitted = {}
    \* get_vads is not running
    /\ v_pc = "idle"
    /\ VadRoot = 0
    /\ procspace = "None"
    /\ vmem = <<>>
    /\ v_stack = <<>>
    /\ visited = {}
    /\ v_out = <<>>
    \* handles is not running
    /\ h_pc = "idle"
    /\ arch = "x86"
    /\ TableCode = 0
    /\ h_stack = <<>>
    /\ h_last = NoItem
    /\ h_break = NoBreak
    \* dereference_as is not running
    /\ f_pc = "idle"
    /\ f_word = 0
    /\ f_parent = PyNone
    /\ f_out = NoObject
    \* find_optional_headers is not running
    /\ o_pc = "idle"
    /\ o_offset = 0
    /\ o_field = <<>>
    /\ o_types = {}
    /\ o_i = 1
    /\ o_attrs = <<>>
    \* generate_suggestions is not running
    /\ va_pc = "idle"
    /\ va_pae = FALSE
    /\ va_dtb = 0
    /\ va_pdpte = 0
    /\ va_vtop = <<>>
    /\ va_assert = FALSE
    /\ va_out = <<>>
    \* _MMVAD construction is not running
    /\ n_pc = "idle"
    /\ n_offset = 0
    /\ n_tag = "unread"
    /\ n_vm = "None"
    /\ n_out = NoneObject
    \* _UNICODE_STRING is not running
    /\ u_pc = "idle"
    /\ u_Length = 0
    /\ u_Buffer = FALSE
    /\ u_data = FALSE
    /\ u_op = "none"
    /\ u_out = NoResult
    \* get_process_address_space is not running
    /\ p_pc = "idle"
    /\ p_heap = <<>>
    /\ p_vm = 0
    /\ p_dtb = 0
    /\ p_pid = 0
    /\ p_out = 0
    /\ p_before = <<>>
    \* full_key_name is not running
    /\ k_pc = "idle"
    /\ k_parent = <<>>
    /\ k_named = <<>>
    /\ k_kcb = 0
    /\ k_output = <<>>
    /\ k_result = NoResult

NextSchema ==
    \/ ResolveOrder
    \/ ApplyModification
    \/ MergeAgain
    \/ ApplyEnd

\* ------------------------------------------------------------------------
\* Properties of the profile modifications
\* ------------------------------------------------------------------------
\* The profile after WindowsVTypes, WindowsOverlay and WindowsObjectClasses
\* were applied to the base profile in this order
InDependencyOrder ==
    LET v == modification("WindowsVTypes", BaseVtypes, {})
        o == modification("WindowsOverlay", v[1], v[2])
    IN  modification("WindowsObjectClasses", o[1], o[2])

\* C16: merging the same overlay into a schema twice gives the schema that
\* merging it once gave, and the schema the modifications leave is the one of
\* their dependency order (WindowsVTypes, WindowsOverlay,
\* WindowsObjectClasses), whatever order they were registered in.
C16_MergeOnceAndOrder ==
    /\ s_again => s_vtypes = s_once
    /\ s_pc = "done" => <<s_vtypes, s_classes>> = InDependencyOrder

\* The modifications were registered in the reverse of their dependency
\* order, the overlay patches a structure that a vtypes table defines and
\* leaves a field of a base structure alone, and it was merged twice
C16_Witness ==
    /\ s_pc = "done"
    /\ s_again
    /\ s_registered = <<"WindowsObjectClasses", "WindowsOverlay", "WindowsVTypes">>
    /\ s_tables = {"_DBGKD_GET_VERSION64"}
    /\ s_overlay["_DBGKD_GET_VERSION64"]["m1"].type = "overlay"
    /\ s_overlay["_EPROCESS"]["m1"] = NoPatch
    /\ s_overlay["_EPROCESS"]["m2"].off = "None"
    /\ s_vtypes["_EPROCESS"]["m2"] = [off |-> "base", type |-> "overlay"]

\* ------------------------------------------------------------------------
\* _MMVAD.__new__
\* ------------------------------------------------------------------------
other_than_mmvad ==
    <<as_vars, list_vars, vad_vars, handle_vars, fastref_vars,
      optional_vars, valid_vars, schema_vars, unicode_vars, proc_vars,
      key_vars>>

\* The tags of tag_map, a pool tag of another kind, and what str() gives for
\* a tag that cannot be read
AnyTags == {"Vadl", "VadS", "Vad ", "VadF", "Vadm", "Proc", "-"}

\* obj.Object('_MMVAD', offset = n_offset, vm = n_vm, ...)
MmvadNew ==
    /\ n_pc = "call"
    /\ n_out' = MMVAD_new([a \in {n_offset} |->
                              [tag |-> n_tag, left |-> 0, right |-> 0]],
                          n_offset, n_vm)
    /\ n_pc' = "done"
    /\ UNCHANGED <<n_offset, n_tag, n_vm>>
    /\ UNCHANGED other_than_mmvad

InitMmvad ==
    /\ n_pc = "call"
    /\ n_offset \in 0..MaxOffset
    /\ n_tag \in AnyTags
    /\ n_vm \in {"Process", "None"}
    /\ n_out = NoneObject
    \* load_as is not running
    /\ as_pc = "off"
    /\ run = 0
    /\ kwargs = "cfgA"
    /\ layers = <<>>
    /\ base_as = 0
    /\ found = FALSE
    /\ idx = 1
    /\ round = 0
    /\ reasons = <<>>
    /\ raisedErr = NoError
    /\ result = 0
    /\ attempts = <<>>
    /\ verdict = {}
    /\ first = NoOutcome
    \* list_of_type is not running
    /\ l_pc = "idle"
    /\ l_self = 0
    /\ l_forward = TRUE
    /\ l_off = 0
    /\ Flink = <<>>
    /\ Blink = <<>>
    /\ lst = 0
    /\ seen = {}
    /\ l_out = <<>>
    /\ admitted = {}
    \* get_vads is not running
    /\ v_pc = "idle"
    /\ VadRoot = 0
    /\ procspace = "None"
    /\ vmem = <<>>
    /\ v_stack = <<>>
    /\ visited = {}
    /\ v_out = <<>>
    \* handles is not running
    /\ h_pc = "idle"
    /\ arch = "x86"
    /\ TableCode = 0
    /\ h_stack = <<>>
    /\ h_last = NoItem
    /\ h_break = NoBreak
    \* dereference_as is not running
    /\ f_pc = "idle"
    /\ f_word = 0
    /\ f_parent = PyNone
    /\ f_out = NoObject
    \* find_optional_headers is not running
    /\ o_pc = "idle"
    /\ o_offset = 0
    /\ o_field = <<>>
    /\ o_types = {}
    /\ o_i = 1
    /\ o_attrs = <<>>
    \* generate_suggestions is not running
    /\ va_pc = "idle"
    /\ va_pae = FALSE
    /\ va_dtb = 0
    /\ va_pdpte = 0
    /\ va_vtop = <<>>
    /\ va_assert = FALSE
    /\ va_out = <<>>
    \* profile modifications is not running
    /\ s_pc = "idle"
    /\ s_registered = <<>>
    /\ s_order = <<>>
    /\ s_k = 1
    /\ s_overlay = <<>>
    /\ s_tables = {}
    /\ s_vtypes = <<>>
    /\ s_classes = {}
    /\ s_again = FALSE
    /\ s_once = <<>>
    \* _UNICODE_STRING is not running
    /\ u_pc = "idle"
    /\ u_Length = 0
    /\ u_Buffer = FALSE
    /\ u_data = FALSE
    /\ u_op = "none"
    /\ u_out = NoResult
    \* get_process_address_space is not running
    /\ p_pc = "idle"
    /\ p_heap = <<>>
    /\ p_vm = 0
    /\ p_dtb = 0
    /\ p_pid = 0
    /\ p_out = 0
    /\ p_before = <<>>
    \* full_key_name is not running
    /\ k_pc = "idle"
    /\ k_parent = <<>>
    /\ k_named = <<>>
    /\ k_kcb = 0
    /\ k_output = <<>>
    /\ k_result = NoResult

NextMmvad ==
    \/ MmvadNew

\* ------------------------------------------------------------------------
\* Properties of _MMVAD.__new__
\* ------------------------------------------------------------------------
\* C20: constructing an _MMVAD at an offset returns an object of the subtype
\* tag_map gives for the tag in front of it ('Vadl', 'Vad ', 'Vadm':
\* _MMVAD_LONG; 'VadS', 'VadF': _MMVAD_SHORT); for any other tag, an offset
\* below 4 or a missing address space it returns an absent value, never an
\* object of a default subtype.
C20_SubtypeByTag ==
    n_pc = "done" =>
        IF n_offset >= 4 /\ n_vm # "None" /\ n_tag \in {"Vadl", "Vad ", "Vadm"}
        THEN n_out = [type |-> "_MMVAD_LONG", offset |-> n_offset]
        ELSE IF n_offset >= 4 /\ n_vm # "None" /\ n_tag \in {"VadS", "VadF"}
        THEN n_out = [type |-> "_MMVAD_SHORT", offset |-> n_offset]
        ELSE n_out = NoneObject

\* A 'Vadm' node was constructed as an _MMVAD_LONG
C20_Witness ==
    /\ n_pc = "done"
    /\ n_tag = "Vadm"
    /\ n_offset >= 4
    /\ n_out.type = "_MMVAD_LONG"

\* ------------------------------------------------------------------------
\* _UNICODE_STRING: v, dereference, __nonzero__
\* ------------------------------------------------------------------------
other_than_unicode ==
    <<as_vars, list_vars, vad_vars, handle_vars, fastref_vars,
      optional_vars, valid_vars, schema_vars, mmvad_vars, proc_vars,
      key_vars>>

\* The claimed lengths: around 0 and around the limit of 1024
Lengths ==
    (0..NumLengths) \cup {1024 - i : i \in 0..NumLengths}
                    \cup {1024 + i : i \in 1..NumLengths}

\* self.Buffer.dereference_as('String', encoding = 'utf16', length = length):
\* a String, or a NoneObject when the buffer cannot be read
BufferString == IF u_Buffer /\ u_data THEN "String" ELSE "NoneObject"

\* Faulty variant: the claimed length has no upper limit
dereference_any_length(length) ==
    IF length > 0
    THEN [value |-> BufferString, read |-> TRUE]
    ELSE [value |-> "NoneObject", read |-> FALSE]

\* dereference(self)
dereference(length) ==
    IF length > 0 /\ length <= 1024
    THEN [value |-> BufferString, read |-> TRUE]
    ELSE [value |-> "NoneObject", read |-> FALSE]

\* v(self): data = self.dereference(); if data: return unicode(data);
\* return data
v(length) ==
    LET data == dereference(length)
    IN  IF data.value = "String" THEN [data EXCEPT !.value = "unicode"]
        ELSE data

\* __nonzero__(self)
nonzero(length) ==
    [value |-> IF u_Buffer /\ length > 0 /\ length <= 1024
               THEN "True" ELSE "False",
     read |-> FALSE]

CallV ==
    /\ u_pc = "call"
    /\ u_op' = "v"
    /\ u_out' = v(u_Length)
    /\ u_pc' = "done"
    /\ UNCHANGED <<u_Length, u_Buffer, u_data>>
    /\ UNCHANGED other_than_unicode

CallDereference ==
    /\ u_pc = "call"
    /\ u_op' = "dereference"
    /\ u_out' = dereference(u_Length)
    /\ u_pc' = "done"
    /\ UNCHANGED <<u_Length, u_Buffer, u_data>>
    /\ UNCHANGED other_than_unicode

CallNonzero ==
    /\ u_pc = "call"
    /\ u_op' = "__nonzero__"
    /\ u_out' = nonzero(u_Length)
    /\ u_pc' = "done"
    /\ UNCHANGED <<u_Length, u_Buffer, u_data>>
    /\ UNCHANGED other_than_unicode

InitUnicode ==
    /\ u_pc = "call"
    /\ u_Length \in Lengths
    /\ u_Buffer \in BOOLEAN
    /\ u_data \in BOOLEAN
    /\ u_op = "none"
    /\ u_out = NoResult
    \* load_as is not running
    /\ as_pc = "off"
    /\ run = 0
    /\ kwargs = "cfgA"
    /\ layers = <<>>
    /\ base_as = 0
    /\ found = FALSE
    /\ idx = 1
    /\ round = 0
    /\ reasons = <<>>
    /\ raisedErr = NoError
    /\ result = 0
    /\ attempts = <<>>
    /\ verdict = {}
    /\ first = NoOutcome
    \* list_of_type is not running
    /\ l_pc = "idle"
    /\ l_self = 0
    /\ l_forward = TRUE
    /\ l_off = 0
    /\ Flink = <<>>
    /\ Blink = <<>>
    /\ lst = 0
    /\ seen = {}
    /\ l_out = <<>>
    /\ admitted = {}
    \* get_vads is not running
    /\ v_pc = "idle"
    /\ VadRoot = 0
    /\ procspace = "None"
    /\ vmem = <<>>
    /\ v_stack = <<>>
    /\ visited = {}
    /\ v_out = <<>>
    \* handles is not running
    /\ h_pc = "idle"
    /\ arch = "x86"
    /\ TableCode = 0
    /\ h_stack = <<>>
    /\ h_last = NoItem
    /\ h_break = NoBreak
    \* dereference_as is not running
    /\ f_pc = "idle"
    /\ f_word = 0
    /\ f_parent = PyNone
    /\ f_out = NoObject
    \* find_optional_headers is not running
    /\ o_pc = "idle"
    /\ o_offset = 0
    /\ o_field = <<>>
    /\ o_types = {}
    /\ o_i = 1
    /\ o_attrs = <<>>
    \* generate_suggestions is not running
    /\ va_pc = "idle"
    /\ va_pae = FALSE
    /\ va_dtb = 0
    /\ va_pdpte = 0
    /\ va_vtop = <<>>
    /\ va_assert = FALSE
    /\ va_out = <<>>
    \* profile modifications is not running
    /\ s_pc = "idle"
    /\ s_registered = <<>>
    /\ s_order = <<>>
    /\ s_k = 1
    /\ s_overlay = <<>>
    /\ s_tables = {}
    /\ s_vtypes = <<>>
    /\ s_classes = {}
    /\ s_again = FALSE
    /\ s_once = <<>>
    \* _MMVAD construction is not running
    /\ n_pc = "idle"
    /\ n_offset = 0
    /\ n_tag = "unread"
    /\ n_vm = "None"
    /\ n_out = NoneObject
    \* get_process_address_space is not running
    /\ p_pc = "idle"
    /\ p_heap = <<>>
    /\ p_vm = 0
    /\ p_dtb = 0
    /\ p_pid = 0
    /\ p_out = 0
    /\ p_before = <<>>
    \* full_key_name is not running
    /\ k_pc = "idle"
    /\ k_parent = <<>>
    /\ k_named = <<>>
    /\ k_kcb = 0
    /\ k_output = <<>>
    /\ k_result = NoResult

NextUnicode ==
    \/ CallV
    \/ CallDereference
    \/ CallNonzero

\* ------------------------------------------------------------------------
\* Properties of _UNICODE_STRING
\* ------------------------------------------------------------------------
\* C22: a _UNICODE_STRING whose Length is 0 or above 1024 is invalid: its
\* truth value is false, and dereference() and v() return a NoneObject
\* without reading the buffer; the truth value is true only if Buffer is
\* valid and 1 <= Length <= 1024.
C22_LengthBounds ==
    u_pc = "done" =>
        /\ (u_Length = 0 \/ u_Length > 1024) =>
              /\ u_op = "__nonzero__" => u_out.value = "False"
              /\ u_op \in {"v", "dereference"} =>
                    u_out = [value |-> "NoneObject", read |-> FALSE]
        /\ (u_op = "__nonzero__" /\ u_out.value = "True") =>
              (u_Buffer /\ 1 <= u_Length /\ u_Length <= 1024)

\* v() of a string that claims one byte more than the limit
C22_Witness ==
    /\ u_pc = "done"
    /\ u_op = "v"
    /\ u_Length = 1025
    /\ u_Buffer
    /\ u_data
    /\ u_out.value = "NoneObject"

\* ------------------------------------------------------------------------
\* _EPROCESS.get_process_address_space, and how get_vads uses it
\* ------------------------------------------------------------------------
other_than_proc ==
    <<as_vars, list_vars, vad_vars, handle_vars, fastref_vars,
      optional_vars, valid_vars, schema_vars, mmvad_vars, unicode_vars,
      key_vars>>

\* The kernel layer the _EPROCESS was read through
KernelLayer == p_heap[p_vm]

\* Faulty variant: the process layer stacked on the kernel layer itself
ProcessLayerOverKernel ==
    [cls |-> KernelLayer.cls, base |-> p_vm, config |-> KernelLayer.config,
     dtb |-> p_dtb, name |-> <<"Process", p_pid>>]

\* self.obj_vm.__class__(self.obj_vm.base, self.obj_vm.get_config(),
\*                       dtb = directory_table_base)
\* process_as.name = "Process {0}".format(self.UniqueProcessId)
ProcessLayer ==
    [cls |-> KernelLayer.cls, base |-> KernelLayer.base,
     config |-> KernelLayer.config, dtb |-> p_dtb,
     name |-> <<"Process", p_pid>>]

\* The constructor accepts: process_as is returned
ProcessAccepted ==
    /\ p_pc = "call"
    /\ p_heap' = Append(p_heap, ProcessLayer)
    /\ p_out' = Len(p_heap) + 1
    /\ p_pc' = "vads"
    /\ UNCHANGED <<p_vm, p_dtb, p_pid, p_before>>
    /\ UNCHANGED other_than_proc

\* except AssertionError, _e: return obj.NoneObject("Unable to get process AS")
ProcessRejected ==
    /\ p_pc = "call"
    /\ p_out' = 0
    /\ p_pc' = "vads"
    /\ UNCHANGED <<p_heap, p_vm, p_dtb, p_pid, p_before>>
    /\ UNCHANGED other_than_proc

\* Any other exception of the constructor leaves get_process_address_space
ProcessFault ==
    /\ p_pc = "call"
    /\ p_pc' = "raised"
    /\ UNCHANGED <<p_heap, p_vm, p_dtb, p_pid, p_out, p_before>>
    /\ UNCHANGED other_than_proc

\* get_vads: if procspace: vadroot = obj.Object('_MMVAD', ...); ...
\* a NoneObject is false and get_vads ends without a yield
GetVads ==
    /\ p_pc = "vads"
    /\ p_pc' = IF p_out # 0 THEN "walk" ELSE "done"
    /\ UNCHANGED <<p_heap, p_vm, p_dtb, p_pid, p_out, p_before>>
    /\ UNCHANGED other_than_proc

\* The layers under an _EPROCESS: a raw file layer, a crash dump layer over
\* it or not, and the kernel layer on top
LayerStacks ==
    {<<[cls |-> "File", base |-> 0, config |-> c, dtb |-> 0, name |-> "File"]>>
        \o mid
        \o <<[cls |-> k, base |-> Len(mid) + 1, config |-> c, dtb |-> 4096,
              name |-> "Kernel AS"]>> :
        c \in Configs, k \in {"IA32", "IA32PAE"},
        mid \in {<<>>, <<[cls |-> "CrashDump", base |-> 1, config |-> "cfgA",
                          dtb |-> 0, name |-> "Dump"]>>}}

InitProc ==
    /\ p_pc = "call"
    /\ p_heap \in LayerStacks
    /\ p_vm = Len(p_heap)
    /\ p_dtb \in {4096 * (i + 1) : i \in 1..NumTables}
    /\ p_pid \in {4, 8}
    /\ p_out = 0
    /\ p_before = p_heap
    \* load_as is not running
    /\ as_pc = "off"
    /\ run = 0
    /\ kwargs = "cfgA"
    /\ layers = <<>>
    /\ base_as = 0
    /\ found = FALSE
    /\ idx = 1
    /\ round = 0
    /\ reasons = <<>>
    /\ raisedErr = NoError
    /\ result = 0
    /\ attempts = <<>>
    /\ verdict = {}
    /\ first = NoOutcome
    \* list_of_type is not running
    /\ l_pc = "idle"
    /\ l_self = 0
    /\ l_forward = TRUE
    /\ l_off = 0
    /\ Flink = <<>>
    /\ Blink = <<>>
    /\ lst = 0
    /\ seen = {}
    /\ l_out = <<>>
    /\ admitted = {}
    \* get_vads is not running
    /\ v_pc = "idle"
    /\ VadRoot = 0
    /\ procspace = "None"
    /\ vmem = <<>>
    /\ v_stack = <<>>
    /\ visited = {}
    /\ v_out = <<>>
    \* handles is not running
    /\ h_pc = "idle"
    /\ arch = "x86"
    /\ TableCode = 0
    /\ h_stack = <<>>
    /\ h_last = NoItem
    /\ h_break = NoBreak
    \* dereference_as is not running
    /\ f_pc = "idle"
    /\ f_word = 0
    /\ f_parent = PyNone
    /\ f_out = NoObject
    \* find_optional_headers is not running
    /\ o_pc = "idle"
    /\ o_offset = 0
    /\ o_field = <<>>
    /\ o_types = {}
    /\ o_i = 1
    /\ o_attrs = <<>>
    \* generate_suggestions is not running
    /\ va_pc = "idle"
    /\ va_pae = FALSE
    /\ va_dtb = 0
    /\ va_pdpte = 0
    /\ va_vtop = <<>>
    /\ va_assert = FALSE
    /\ va_out = <<>>
    \* profile modifications is not running
    /\ s_pc = "idle"
    /\ s_registered = <<>>
    /\ s_order = <<>>
    /\ s_k = 1
    /\ s_overlay = <<>>
    /\ s_tables = {}
    /\ s_vtypes = <<>>
    /\ s_classes = {}
    /\ s_again = FALSE
    /\ s_once = <<>>
    \* _MMVAD construction is not running
    /\ n_pc = "idle"
    /\ n_offset = 0
    /\ n_tag = "unread"
    /\ n_vm = "None"
    /\ n_out = NoneObject
    \* _UNICODE_STRING is not running
    /\ u_pc = "idle"
    /\ u_Length = 0
    /\ u_Buffer = FALSE
    /\ u_data = FALSE
    /\ u_op = "none"
    /\ u_out = NoResult
    \* full_key_name is not running
    /\ k_pc = "idle"
    /\ k_parent = <<>>
    /\ k_named = <<>>
    /\ k_kcb = 0
    /\ k_output = <<>>
    /\ k_result = NoResult

NextProc ==
    \/ ProcessAccepted
    \/ ProcessRejected
    \/ ProcessFault
    \/ GetVads

\* ------------------------------------------------------------------------
\* Properties of get_process_address_space
\* ------------------------------------------------------------------------
\* C23: get_process_address_space builds a new layer of the kernel layer's
\* type over the kernel layer's own base (not over the kernel layer), with
\* the process's DirectoryTableBase as dtb; the kernel layer and its base stay
\* as they were; when the candidate is rejected (AssertionError) an absent
\* value is returned, nothing is raised, and get_vads yields nothing.
C23_ProcessLayer ==
    /\ SubSeq(p_heap, 1, Len(p_before)) = p_before
    /\ p_out # 0 =>
          /\ p_out = Len(p_before) + 1
          /\ p_heap[p_out].cls = p_before[p_vm].cls
          /\ p_heap[p_out].base = p_before[p_vm].base
          /\ p_heap[p_out].base # p_vm
          /\ p_heap[p_out].dtb = p_dtb
          /\ p_heap[p_out].config = p_before[p_vm].config
    /\ (p_pc \in {"vads", "done"} /\ p_out = 0) => p_heap = p_before
    /\ p_pc = "walk" => p_out # 0
    /\ p_pc = "done" => p_out = 0

\* A process layer was built over the crash dump layer under the kernel layer
C23_Witness ==
    /\ p_pc = "walk"
    /\ Len(p_heap) = 4
    /\ p_heap[p_out].base = 2
    /\ p_heap[p_out].dtb # p_heap[p_vm].dtb

\* ------------------------------------------------------------------------
\* _CM_KEY_BODY.full_key_name
\* ------------------------------------------------------------------------
other_than_key ==
    <<as_vars, list_vars, vad_vars, handle_vars, fastref_vars, optional_vars,
      valid_vars, schema_vars, mmvad_vars, unicode_vars, proc_vars>>

Kcbs == 1..NumKcbs

\* str(kcb.NameBlock.Name): every block has a name of its own
NameOf(kcb) == kcb

\* reversed(output)
Reversed(s) == [i \in 1..Len(s) |-> s[Len(s) + 1 - i]]

\* while kcb.ParentKcb: a pointer that is not valid is false, and so is
\* every member of a block that could not be read
ParentKcbTrue == k_kcb # 0 /\ k_parent[k_kcb] # 0

\* The body of the while loop: append the name, move to the parent.  The
\* names are followed until one block more than the image holds.
KeyStep ==
    /\ k_pc = "loop"
    /\ ParentKcbTrue
    /\ k_named[k_kcb]
    /\ Len(k_output) <= NumKcbs
    /\ k_output' = Append(k_output, NameOf(k_kcb))
    /\ k_kcb' = k_parent[k_kcb]
    /\ UNCHANGED <<k_pc, k_parent, k_named, k_result>>
    /\ UNCHANGED other_than_key

\* if kcb.NameBlock.Name == None: break
KeyBreak ==
    /\ k_pc = "loop"
    /\ ParentKcbTrue
    /\ ~k_named[k_kcb]
    /\ k_pc' = "done"
    /\ k_result' = Reversed(k_output)
    /\ UNCHANGED <<k_parent, k_named, k_kcb, k_output>>
    /\ UNCHANGED other_than_key

\* The while condition is false: return "\\".join(reversed(output))
KeyReturn ==
    /\ k_pc = "loop"
    /\ ~ParentKcbTrue
    /\ k_pc' = "done"
    /\ k_result' = Reversed(k_output)
    /\ UNCHANGED <<k_parent, k_named, k_kcb, k_output>>
    /\ UNCHANGED other_than_key

InitKey ==
    /\ k_pc = "loop"
    /\ k_parent \in [Kcbs -> 0..NumKcbs]
    /\ k_named \in [Kcbs -> BOOLEAN]
    /\ k_kcb \in 0..NumKcbs
    /\ k_output = <<>>
    /\ k_result = NoResult
    \* load_as is not running
    /\ as_pc = "off"
    /\ run = 0
    /\ kwargs = "cfgA"
    /\ layers = <<>>
    /\ base_as = 0
    /\ found = FALSE
    /\ idx = 1
    /\ round = 0
    /\ reasons = <<>>
    /\ raisedErr = NoError
    /\ result = 0
    /\ attempts = <<>>
    /\ verdict = {}
    /\ first = NoOutcome
    \* list_of_type is not running
    /\ l_pc = "idle"
    /\ l_self = 0
    /\ l_forward = TRUE
    /\ l_off = 0
    /\ Flink = <<>>
    /\ Blink = <<>>
    /\ lst = 0
    /\ seen = {}
    /\ l_out = <<>>
    /\ admitted = {}
    \* get_vads is not running
    /\ v_pc = "idle"
    /\ VadRoot = 0
    /\ procspace = "None"
    /\ vmem = <<>>
    /\ v_stack = <<>>
    /\ visited = {}
    /\ v_out = <<>>
    \* handles is not running
    /\ h_pc = "idle"
    /\ arch = "x86"
    /\ TableCode = 0
    /\ h_stack = <<>>
    /\ h_last = NoItem
    /\ h_break = NoBreak
    \* dereference_as is not running
    /\ f_pc = "idle"
    /\ f_word = 0
    /\ f_parent = PyNone
    /\ f_out = NoObject
    \* find_optional_headers is not running
    /\ o_pc = "idle"
    /\ o_offset = 0
    /\ o_field = <<>>
    /\ o_types = {}
    /\ o_i = 1
    /\ o_attrs = <<>>
    \* generate_suggestions is not running
    /\ va_pc = "idle"
    /\ va_pae = FALSE
    /\ va_dtb = 0
    /\ va_pdpte = 0
    /\ va_vtop = <<>>
    /\ va_assert = FALSE
    /\ va_out = <<>>
    \* profile modifications is not running
    /\ s_pc = "idle"
    /\ s_registered = <<>>
    /\ s_order = <<>>
    /\ s_k = 1
    /\ s_overlay = <<>>
    /\ s_tables = {}
    /\ s_vtypes = <<>>
    /\ s_classes = {}
    /\ s_again = FALSE
    /\ s_once = <<>>
    \* _MMVAD construction is not running
    /\ n_pc = "idle"
    /\ n_offset = 0
    /\ n_tag = "unread"
    /\ n_vm = "None"
    /\ n_out = NoneObject
    \* _UNICODE_STRING is not running
    /\ u_pc = "idle"
    /\ u_Length = 0
    /\ u_Buffer = FALSE
    /\ u_data = FALSE
    /\ u_op = "none"
    /\ u_out = NoResult
    \* get_process_address_space is not running
    /\ p_pc = "idle"
    /\ p_heap = <<>>
    /\ p_vm = 0
    /\ p_dtb = 0
    /\ p_pid = 0
    /\ p_out = 0
    /\ p_before = <<>>

NextKey ==
    \/ KeyStep
    \/ KeyBreak
    \/ KeyReturn

\* ------------------------------------------------------------------------
\* Properties of full_key_name
\* ------------------------------------------------------------------------
\* The loop's next block depends on the block it is at and on nothing else:
\* once a block is named twice the loop repeats the same blocks for ever.
NamedTwice ==
    \E i, j \in 1..Len(k_output) : i < j /\ k_output[i] = k_output[j]

\* C24: full_key_name terminates on every image, also when the ParentKcb
\* links form a cycle: no run of the loop comes back to a block it has
\* already named.
C24_Terminates == ~NamedTwice

\* ------------------------------------------------------------------------
\* Specifications
\* ------------------------------------------------------------------------
SpecAS == InitAS /\ [][NextAS]_vars

\* load_as runs on: a constructor returns or raises, the loops go on
SpecASFair == InitAS /\ [][NextAS]_vars /\ WF_vars(StepAS)

SpecList == InitList /\ [][NextList]_vars

SpecVad == InitVad /\ [][NextVad]_vars

SpecHandle == InitHandle /\ [][NextHandle]_vars

\* The generators are driven to exhaustion by the caller's for loop
SpecHandleFair == InitHandle /\ [][NextHandle]_vars /\ WF_vars(NextHandle)

SpecFastRef == InitFastRef /\ [][NextFastRef]_vars

SpecOptional == InitOptional /\ [][NextOptional]_vars

SpecValid == InitValid /\ [][NextValid]_vars

SpecSchema == InitSchema /\ [][NextSchema]_vars

SpecMmvad == InitMmvad /\ [][NextMmvad]_vars

SpecUnicode == InitUnicode /\ [][NextUnicode]_vars

SpecProc == InitProc /\ [][NextProc]_vars

SpecKey == InitKey /\ [][NextKey]_vars

====
